---- MODULE Spec2Model ----
(***************************************************************************)
(* Content-normalisation, rendering and save paths of scribe-muse-ai.      *)
(*                                                                         *)
(* A string is a sequence of one-character strings.  The regular           *)
(* expressions of src/src/lib/utils.ts are written out as scanners over    *)
(* such sequences.  The browser DOM (innerHTML / textContent) and the      *)
(* DOMPurify library are not part of the repository; they are modelled     *)
(* from the HTML serialisation rules and from section 4.4 of the spec.     *)
(***************************************************************************)
EXTENDS Integers, Sequences, FiniteSets, TLC

VARIABLES
    content,    \* rows of table public.content, in insertion order
    sess,       \* per browser session: the Create form and its submission in flight
    hs1, hs2,   \* the two raw inputs compared by the hashing check
    hd1, hd2,   \* their digests, once computed
    hn, hnn,    \* normalizeContent(hs2) and normalizeContent of that
    hpc,        \* position of the hashing check
    rIn,        \* render pipeline: the content handed to renderForPreview
    rHtml,      \* what toHtmlFromContent made of it
    rPlain,     \* what toHtmlFromPlainText made of it
    rOut,       \* what renderForPreview returned for it
    rOut2,      \* what renderForPreview returned for rOut
    rpc,        \* position of the render check
    pIn, pOut,  \* plain-text converter: input and output
    pBack,      \* what stripHtml made of pOut
    pAlt,       \* pIn with its line endings written in other styles
    pAltOut,    \* what toHtmlFromPlainText made of pAlt
    ppc,        \* position of the plain-text check
    shown,      \* surfaces: the content at hand (typed, stored or replied)
    typed,      \* surfaces: the content as it was before the first mode switch
    editorMode, \* surfaces: the Create tab editor mode
    doc,        \* surfaces: the last string assigned to the document as markup
    mIn,        \* Markdown: the content handed to the converter
    mHtml,      \* what simpleMarkdownToHtml made of it
    mOut,       \* what renderForPreview returned for it
    mpc,        \* position of the Markdown check
    sIn,        \* sanitizer: the markup handed to sanitizeHtml
    sOut,       \* what sanitizeHtml returned for it
    sOut2,      \* what sanitizeHtml returned for sOut
    spc,        \* position of the sanitizer check
    localStorage, \* drafts: the items of window.localStorage, by key
    clock,      \* drafts: Date.now()
    ticks,      \* drafts: the clock steps taken
    draftUser,  \* drafts: the signed-in user
    form,       \* drafts: the values of the Create form and its isDirty
    submitting, \* drafts: the onSubmit in flight and its content type
    loaded,     \* drafts: the last call of loadDraft and what it returned
    sinceSubmit, \* drafts: a submission succeeded and the user has not edited since
    contentTable,    \* edit: the rows of public.content, by id
    contentVersions, \* edit: the rows of public.content_versions
    selectedContent, \* edit: the row object handed to EditTab
    originalContent, \* edit: state originalContent
    editedContent,   \* edit: state editedContent
    editedTitle,     \* edit: state editedTitle
    saving,          \* edit: the handleSave in flight, its values and what it found
    saveResult,      \* edit: how the last handleSave ended
    cleanSinceSave,  \* edit: a save succeeded and the user has not edited since
    libraryRows,     \* library: the ids of the user's stored rows
    contentList,     \* library: the ids of state `content`, the loaded list
    selectedItems,   \* library: state selectedItems
    request,         \* library: the delete request in flight
    messages,        \* agent chat: state messages, the transcript
    input,           \* agent chat: state input
    isLoading,       \* agent chat: state isLoading
    pending,         \* agent chat: requests of this instance in flight
    accepted,        \* agent chat: submissions that passed the guard
    answered         \* agent chat: submissions whose request has ended

storeVars  == <<content, sess>>
hashVars   == <<hs1, hs2, hd1, hd2, hn, hnn, hpc>>
renderVars == <<rIn, rHtml, rPlain, rOut, rOut2, rpc>>
plainVars  == <<pIn, pOut, pBack, pAlt, pAltOut, ppc>>
surfVars   == <<shown, typed, editorMode, doc>>
markVars   == <<mIn, mHtml, mOut, mpc>>
sanVars    == <<sIn, sOut, sOut2, spc>>
draftVars  == <<localStorage, clock, ticks, draftUser, form, submitting, loaded, sinceSubmit>>
editVars   == <<contentTable, contentVersions, selectedContent, originalContent,
                editedContent, editedTitle, saving, saveResult, cleanSinceSave>>
libVars    == <<libraryRows, contentList, selectedItems, request>>
agentVars  == <<messages, input, isLoading, pending, accepted, answered>>

\* each check leaves the state of the others alone
OnlyStore ==
    UNCHANGED <<hashVars, renderVars, plainVars, surfVars, markVars, sanVars,
                draftVars, editVars, libVars, agentVars>>
OnlyHash ==
    UNCHANGED <<storeVars, renderVars, plainVars, surfVars, markVars, sanVars,
                draftVars, editVars, libVars, agentVars>>
OnlyRender ==
    UNCHANGED <<storeVars, hashVars, plainVars, surfVars, markVars, sanVars,
                draftVars, editVars, libVars, agentVars>>
OnlyPlain ==
    UNCHANGED <<storeVars, hashVars, renderVars, surfVars, markVars, sanVars,
                draftVars, editVars, libVars, agentVars>>
OnlySurf ==
    UNCHANGED <<storeVars, hashVars, renderVars, plainVars, markVars, sanVars,
                draftVars, editVars, libVars, agentVars>>
OnlyMark ==
    UNCHANGED <<storeVars, hashVars, renderVars, plainVars, surfVars, sanVars,
                draftVars, editVars, libVars, agentVars>>
OnlySan ==
    UNCHANGED <<storeVars, hashVars, renderVars, plainVars, surfVars, markVars,
                draftVars, editVars, libVars, agentVars>>

OnlyDraft ==
    UNCHANGED <<storeVars, hashVars, renderVars, plainVars, surfVars, markVars,
                sanVars, editVars, libVars, agentVars>>

OnlyEdit ==
    UNCHANGED <<storeVars, hashVars, renderVars, plainVars, surfVars, markVars,
                sanVars, draftVars, libVars, agentVars>>

OnlyLib ==
    UNCHANGED <<storeVars, hashVars, renderVars, plainVars, surfVars, markVars,
                sanVars, draftVars, editVars, agentVars>>

OnlyAgent ==
    UNCHANGED <<storeVars, hashVars, renderVars, plainVars, surfVars, markVars,
                sanVars, draftVars, editVars, libVars>>

vars ==
    <<storeVars, hashVars, renderVars, plainVars, surfVars, markVars, sanVars,
      draftVars, editVars, libVars, agentVars>>

----------------------------------------------------------------------------
(* Characters and character classes                                        *)

LowerSeq == <<"a", "b", "c", "d", "e", "f", "g", "h", "i", "j", "k", "l", "m",
              "n", "o", "p", "q", "r", "s", "t", "u", "v", "w", "x", "y", "z">>
UpperSeq == <<"A", "B", "C", "D", "E", "F", "G", "H", "I", "J", "K", "L", "M",
              "N", "O", "P", "Q", "R", "S", "T", "U", "V", "W", "X", "Y", "Z">>
Lower == {LowerSeq[i] : i \in 1..Len(LowerSeq)}
Upper == {UpperSeq[i] : i \in 1..Len(UpperSeq)}
Digit == {"0", "1", "2", "3", "4", "5", "6", "7", "8", "9"}

\* JavaScript \s restricted to the characters the model uses
IsWs(c) == c \in {" ", "\n", "\r", "\t"}

\* [a-z] under the /i flag
IsAlpha(c) == c \in Lower \cup Upper

\* String.prototype.toLowerCase on one character
LowerOf(c) ==
    IF c \in Upper THEN LowerSeq[CHOOSE i \in 1..Len(UpperSeq) : UpperSeq[i] = c] ELSE c

\* s.substring(from - 1, to) with 1-based inclusive bounds; empty when from > to
Sub(s, from, to) == IF from > to THEN <<>> ELSE SubSeq(s, from, to)

\* whether pattern p occurs in s at position i
At(s, i, p) ==
    /\ i >= 1
    /\ i + Len(p) - 1 <= Len(s)
    /\ \A k \in 1..Len(p) : s[i + k - 1] = p[k]

RECURSIVE Flatten(_)
Flatten(ss) == IF ss = <<>> THEN <<>> ELSE Head(ss) \o Flatten(Tail(ss))

\* number of positions of s holding character c
Count(s, c) == Cardinality({i \in 1..Len(s) : s[i] = c})

\* number of positions of s where pattern p occurs
CountAt(s, p) == Cardinality({i \in 1..Len(s) : At(s, i, p)})

----------------------------------------------------------------------------
(* Hash normaliser: utils.ts normalizeContent and sha256Hex                *)

\* String.prototype.trim
Trim(s) ==
    LET nonWs == {i \in 1..Len(s) : ~IsWs(s[i])}
    IN  IF nonWs = {} THEN <<>>
        ELSE Sub(s, CHOOSE i \in nonWs : \A j \in nonWs : i <= j,
                    CHOOSE i \in nonWs : \A j \in nonWs : j <= i)

\* .replace(/\s+/g, ' ')
RECURSIVE CollapseWs(_)
CollapseWs(s) ==
    IF s = <<>> THEN <<>>
    ELSE IF IsWs(Head(s))
         THEN IF Len(s) > 1 /\ IsWs(s[2])
              THEN CollapseWs(Tail(s))
              ELSE <<" ">> \o CollapseWs(Tail(s))
         ELSE <<Head(s)>> \o CollapseWs(Tail(s))

\* .toLowerCase()
ToLowerCase(s) == [i \in 1..Len(s) |-> LowerOf(s[i])]

normalizeContent_NoLower(c) == CollapseWs(Trim(c))

normalizeContent_EachWs(c) ==
    ToLowerCase([i \in 1..Len(Trim(c)) |-> IF IsWs(Trim(c)[i]) THEN " " ELSE Trim(c)[i]])

normalizeContent(c) == ToLowerCase(CollapseWs(Trim(c)))

\* the byte TextEncoder yields for a character, as a number below 64
CharCode(c) ==
    IF c \in Lower THEN CHOOSE i \in 1..Len(LowerSeq) : LowerSeq[i] = c
    ELSE IF c \in Upper THEN 26 + (CHOOSE i \in 1..Len(UpperSeq) : UpperSeq[i] = c)
    ELSE CASE c = " " -> 53 [] c = "\n" -> 54 [] c = "\r" -> 55 [] c = "\t" -> 56
           [] c = "<" -> 57 [] c = ">" -> 58 [] c = "&" -> 59 [] c = "*" -> 60
           [] c = "#" -> 61 [] c = "/" -> 62 [] OTHER -> 63

\* number of hex digits of a SHA-256 digest: 32 bytes, two digits each
HexDigestLen == 64

\* the digest arithmetic of the model is done modulo 16^6
DigestModulus == 16 * 16 * 16 * 16 * 16 * 16

RECURSIVE DigestCode(_, _)
DigestCode(text, acc) ==
    IF text = <<>> THEN acc
    ELSE DigestCode(Tail(text), (acc * 64 + CharCode(Head(text))) % DigestModulus)

\* crypto.subtle.digest('SHA-256', ...) rendered as lowercase hex.  The digest is
\* abstracted to a function of the encoded bytes alone that is collision free on
\* the texts of the model; its hex digits repeat with period 6.
sha256Hex(text) ==
    LET d == DigestCode(text, 1)
    IN  [i \in 1..HexDigestLen |-> (d \div (16 ^ ((i - 1) % 6))) % 16]

----------------------------------------------------------------------------
(* Content classifier: utils.ts isLikelyHtml and looksLikeMarkdown         *)

\* position of the first character of s at or after i that lies in set S (FirstIn)
\* or outside it (FirstNotIn), or Len(s) + 1 when there is none
FirstIn(s, i, S) ==
    LET ps == {p \in i..Len(s) : s[p] \in S}
    IN  IF ps = {} THEN Len(s) + 1 ELSE CHOOSE p \in ps : \A q \in ps : p <= q

FirstNotIn(s, i, S) ==
    LET ps == {p \in i..Len(s) : s[p] \notin S}
    IN  IF ps = {} THEN Len(s) + 1 ELSE CHOOSE p \in ps : \A q \in ps : p <= q

WsSet == {" ", "\n", "\r", "\t"}
LineEnds == {"\n", "\r"}

\* the backquote character, which a TLA+ string cannot hold, is written "tick"
Tick == "tick"

\* ^ under the m flag: the start of the input or just after a line terminator
LineStart(s, i) == i = 1 \/ (i > 1 /\ i <= Len(s) + 1 /\ s[i - 1] \in LineEnds)

\* /<\/?[a-z][a-z0-9]*[^<>]*>/i anchored at position i
HtmlTagAt(s, i) ==
    /\ i <= Len(s) /\ s[i] = "<"
    /\ LET k == IF i + 1 <= Len(s) /\ s[i + 1] = "/" THEN i + 2 ELSE i + 1
           j == FirstIn(s, k + 1, {"<", ">"})
       IN  /\ k <= Len(s) /\ IsAlpha(s[k])
           /\ j <= Len(s) /\ s[j] = ">"

isLikelyHtml(c) == \E i \in 1..Len(c) : HtmlTagAt(c, i)

\* delimiter d, one or more characters other than its character, delimiter d:
\* /\*\*[^*]+\*\*/, /\*[^*]+\*/ and /tick[^tick]+tick/ anchored at position i.
\* The value is the position of the closing delimiter, or 0 when there is no match.
SpanAt(s, i, d) ==
    LET b == i + Len(d)
        j == FirstIn(s, b, {d[1]})
    IN  IF At(s, i, d) /\ b <= Len(s) /\ s[b] # d[1] /\ At(s, j, d)
        THEN j ELSE 0

\* /^#{1,6}\s+/m
MdHeading(s) ==
    \E i \in 1..Len(s) : \E n \in 1..6 :
        /\ LineStart(s, i)
        /\ \A k \in 0..(n - 1) : i + k <= Len(s) /\ s[i + k] = "#"
        /\ i + n <= Len(s) /\ IsWs(s[i + n])

\* /^\*\s+/m and /^-\s+/m
MdBullet(s, ch) ==
    \E i \in 1..Len(s) : LineStart(s, i) /\ s[i] = ch /\ i + 1 <= Len(s) /\ IsWs(s[i + 1])

\* /^\d+\.\s+/m
MdOrdered(s) ==
    \E i \in 1..Len(s) :
        LET e == FirstNotIn(s, i, Digit)
        IN  /\ LineStart(s, i) /\ s[i] \in Digit
            /\ e + 1 <= Len(s) /\ s[e] = "." /\ IsWs(s[e + 1])

looksLikeMarkdown(c) ==
    \/ MdHeading(c)
    \/ MdBullet(c, "*")
    \/ MdBullet(c, "-")
    \/ MdOrdered(c)
    \/ \E i \in 1..Len(c) : SpanAt(c, i, <<"*", "*">>) > 0
    \/ \E i \in 1..Len(c) : SpanAt(c, i, <<"*">>) > 0
    \/ \E i \in 1..Len(c) : SpanAt(c, i, <<Tick>>) > 0
    \/ \E i \in 1..Len(c) : LineStart(c, i) /\ At(c, i, <<Tick, Tick, Tick>>)
    \/ \E i \in 1..Len(c) : LineStart(c, i) /\ c[i] = ">"

----------------------------------------------------------------------------
(* Format converters: utils.ts simpleMarkdownToHtml, escapeHtml,           *)
(* toHtmlFromPlainText, toHtmlFromContent                                  *)

Tag(name) == <<"<">> \o name \o <<">">>
EndTag(name) == <<"<", "/">> \o name \o <<">">>

\* html.replace(/^<marks> (.*$)/gm, '<name>$1</name>'), scanning from position i
RECURSIVE HeadingPass(_, _, _, _)
HeadingPass(s, i, marks, name) ==
    IF i > Len(s) THEN <<>>
    ELSE IF LineStart(s, i) /\ At(s, i, marks \o <<" ">>)
         THEN LET b == i + Len(marks) + 1
                  e == FirstIn(s, b, LineEnds)
              IN  Tag(name) \o Sub(s, b, e - 1) \o EndTag(name)
                      \o HeadingPass(s, e, marks, name)
         ELSE <<s[i]>> \o HeadingPass(s, i + 1, marks, name)

\* html.replace(/d([^c]+)d/g, '<name>$1</name>'), scanning from position i
RECURSIVE SpanPass(_, _, _, _)
SpanPass(s, i, d, name) ==
    IF i > Len(s) THEN <<>>
    ELSE LET j == SpanAt(s, i, d)
         IN  IF j > 0
             THEN Tag(name) \o Sub(s, i + Len(d), j - 1) \o EndTag(name)
                      \o SpanPass(s, j + Len(d), d, name)
             ELSE <<s[i]>> \o SpanPass(s, i + 1, d, name)

\* s.split(/\n\s*\n/), scanning from position i with the current piece starting at b
RECURSIVE SplitParagraphs(_, _, _)
SplitParagraphs(s, b, i) ==
    IF i > Len(s) THEN <<Sub(s, b, Len(s))>>
    ELSE LET e == FirstNotIn(s, i + 1, WsSet)
             nl == {q \in (i + 1)..(e - 1) : s[q] = "\n"}
         IN  IF s[i] = "\n" /\ nl # {}
             THEN LET q == CHOOSE x \in nl : \A y \in nl : y <= x
                  IN  <<Sub(s, b, i - 1)>> \o SplitParagraphs(s, q + 1, q + 1)
             ELSE SplitParagraphs(s, b, i + 1)

\* p.replace(/\n/g, '<br>')
RECURSIVE BreakLines(_)
BreakLines(p) ==
    IF p = <<>> THEN <<>>
    ELSE (IF Head(p) = "\n" THEN <<"<", "b", "r", ">">> ELSE <<Head(p)>>)
             \o BreakLines(Tail(p))

\* paragraphs.filter(p => p.trim()).map(p => '<p>' + p.trim().replace(/\n/g, '<br>') + '</p>').join('')
RECURSIVE WrapParagraphs(_)
WrapParagraphs(ps) ==
    IF ps = <<>> THEN <<>>
    ELSE (IF Trim(Head(ps)) = <<>> THEN <<>>
          ELSE Tag(<<"p">>) \o BreakLines(Trim(Head(ps))) \o EndTag(<<"p">>))
             \o WrapParagraphs(Tail(ps))

simpleMarkdownToHtml_ItalicFirst(markdown) ==
    IF markdown = <<>> THEN <<>>
    ELSE LET h3 == HeadingPass(markdown, 1, <<"#", "#", "#">>, <<"h", "3">>)
             h2 == HeadingPass(h3, 1, <<"#", "#">>, <<"h", "2">>)
             h1 == HeadingPass(h2, 1, <<"#">>, <<"h", "1">>)
             ital == SpanPass(h1, 1, <<"*">>, <<"e", "m">>)
             bold == SpanPass(ital, 1, <<"*", "*">>, <<"s", "t", "r", "o", "n", "g">>)
             code == SpanPass(bold, 1, <<Tick>>, <<"c", "o", "d", "e">>)
         IN  WrapParagraphs(SplitParagraphs(code, 1, 1))

simpleMarkdownToHtml(markdown) ==
    IF markdown = <<>> THEN <<>>
    ELSE LET h3 == HeadingPass(markdown, 1, <<"#", "#", "#">>, <<"h", "3">>)
             h2 == HeadingPass(h3, 1, <<"#", "#">>, <<"h", "2">>)
             h1 == HeadingPass(h2, 1, <<"#">>, <<"h", "1">>)
             bold == SpanPass(h1, 1, <<"*", "*">>, <<"s", "t", "r", "o", "n", "g">>)
             ital == SpanPass(bold, 1, <<"*">>, <<"e", "m">>)
             code == SpanPass(ital, 1, <<Tick>>, <<"c", "o", "d", "e">>)
         IN  WrapParagraphs(SplitParagraphs(code, 1, 1))

\* the serialisation of a text node: div.textContent = text; return div.innerHTML.
\* Only &, < and > are replaced (and U+00A0, which the model's alphabet lacks).
escapeChar(c) ==
    CASE c = "&" -> <<"&", "a", "m", "p", ";">>
      [] c = "<" -> <<"&", "l", "t", ";">>
      [] c = ">" -> <<"&", "g", "t", ";">>
      [] OTHER   -> <<c>>

escapeHtml_NoLt(text) ==
    Flatten([i \in 1..Len(text) |-> IF text[i] = "<" THEN <<"<">> ELSE escapeChar(text[i])])

escapeHtml_NoAmp(text) ==
    Flatten([i \in 1..Len(text) |-> IF text[i] = "&" THEN <<"&">> ELSE escapeChar(text[i])])

escapeHtml(text) == Flatten([i \in 1..Len(text) |-> escapeChar(text[i])])

\* text.replace(/\r\n/g, '\n').replace(/\r/g, '\n')
RECURSIVE NormalizeLineEndings(_)
NormalizeLineEndings(s) ==
    IF s = <<>> THEN <<>>
    ELSE IF Head(s) = "\r"
         THEN <<"\n">> \o NormalizeLineEndings(
                  IF Len(s) > 1 /\ s[2] = "\n" THEN Tail(Tail(s)) ELSE Tail(s))
         ELSE <<Head(s)>> \o NormalizeLineEndings(Tail(s))

toHtmlFromPlainText_NoLineEndings(text) ==
    IF text = <<>> THEN <<>>
    ELSE WrapParagraphs(SplitParagraphs(escapeHtml(text), 1, 1))

toHtmlFromPlainText_CrlfOnly(text) ==
    IF text = <<>> THEN <<>>
    ELSE LET RECURSIVE crlf(_)
             crlf(s) == IF s = <<>> THEN <<>>
                        ELSE IF Len(s) > 1 /\ s[1] = "\r" /\ s[2] = "\n"
                             THEN <<"\n">> \o crlf(Tail(Tail(s)))
                             ELSE <<Head(s)>> \o crlf(Tail(s))
         IN  WrapParagraphs(SplitParagraphs(escapeHtml(crlf(text)), 1, 1))

toHtmlFromPlainText_WrapAlways(text) ==
    Tag(<<"p">>) \o BreakLines(escapeHtml(NormalizeLineEndings(text))) \o EndTag(<<"p">>)

toHtmlFromPlainText(text) ==
    IF text = <<>> THEN <<>>
    ELSE WrapParagraphs(SplitParagraphs(escapeHtml(NormalizeLineEndings(text)), 1, 1))

toHtmlFromContent_MarkdownFirst(c) ==
    IF c = <<>> THEN <<>>
    ELSE IF looksLikeMarkdown(c) THEN simpleMarkdownToHtml(c)
    ELSE IF isLikelyHtml(c) THEN c
    ELSE toHtmlFromPlainText(c)

toHtmlFromContent(c) ==
    IF c = <<>> THEN <<>>
    ELSE IF isLikelyHtml(c) THEN c
    ELSE IF looksLikeMarkdown(c) THEN simpleMarkdownToHtml(c)
    ELSE toHtmlFromPlainText(c)

----------------------------------------------------------------------------
(* Sanitizer and tag stripping.  DOMPurify.sanitize and the browser's      *)
(* HTML parser are libraries; they are modelled on the token stream:       *)
(* a script element goes with its content, a tag that is not on the        *)
(* allow-list goes and its content stays, an attribute that is not on the  *)
(* allow-list (every on* handler) goes, text is re-serialised with &, <    *)
(* and > as entities.  Implied end tags and misnesting repairs of the tree *)
(* builder are not modelled.                                               *)

AllowedTags ==
    { <<"p">>, <<"b", "r">>, <<"b">>, <<"i">>, <<"e", "m">>,
      <<"s", "t", "r", "o", "n", "g">>, <<"h", "1">>, <<"h", "2">>, <<"h", "3">>,
      <<"c", "o", "d", "e">>, <<"a">> }

AllowedAttrs == { <<"i", "d">>, <<"h", "r", "e", "f">> }

ScriptName == <<"s", "c", "r", "i", "p", "t">>

TagNameStops == WsSet \cup {"/", ">"}

\* the tag token that starts at position i of s, where s[i] = "<" and a letter
\* follows it or its "/": closing, name, the position of its ">" (Len(s) + 1
\* when the input ends inside the tag) and the text of its attributes
TagToken(s, i) ==
    LET closing == i + 1 <= Len(s) /\ s[i + 1] = "/"
        k == IF closing THEN i + 2 ELSE i + 1
        nameEnd == FirstIn(s, k, TagNameStops)
        gt == FirstIn(s, k, {">"})
    IN  [closing |-> closing,
         name    |-> ToLowerCase(Sub(s, k, nameEnd - 1)),
         gt      |-> gt,
         attrs   |-> Sub(s, nameEnd, gt - 1)]

\* whether a tag token starts at position i
TagStartsAt(s, i) ==
    /\ i <= Len(s) /\ s[i] = "<"
    /\ LET k == IF i + 1 <= Len(s) /\ s[i + 1] = "/" THEN i + 2 ELSE i + 1
       IN  k <= Len(s) /\ IsAlpha(s[k])

\* position of the first end tag of a script element at or after position i;
\* Len(s) + 1 when there is none
ScriptClose(s, i) ==
    LET ends == {p \in i..Len(s) :
                    /\ TagStartsAt(s, p)
                    /\ TagToken(s, p).closing
                    /\ TagToken(s, p).name = ScriptName}
    IN  IF ends = {} THEN Len(s) + 1 ELSE CHOOSE x \in ends : \A y \in ends : x <= y

\* position just after that end tag; Len(s) + 1 when the element is never closed
ScriptEnd(s, i) ==
    LET p == ScriptClose(s, i)
    IN  IF p > Len(s) \/ TagToken(s, p).gt > Len(s) THEN Len(s) + 1
        ELSE TagToken(s, p).gt + 1

\* the attributes of a tag, one per whitespace-separated word, as <<name, value>>
RECURSIVE AttrWords(_)
AttrWords(a) ==
    LET b == FirstNotIn(a, 1, WsSet \cup {"/"})
        e == FirstIn(a, b, WsSet \cup {"/"})
    IN  IF b > Len(a) THEN <<>>
        ELSE LET word == Sub(a, b, e - 1)
                 eq == FirstIn(word, 1, {"="})
                 raw == Sub(word, eq + 1, Len(word))
                 val == IF Len(raw) >= 2 /\ raw[1] = "\"" /\ raw[Len(raw)] = "\""
                        THEN Sub(raw, 2, Len(raw) - 1) ELSE raw
             IN  <<[name |-> ToLowerCase(Sub(word, 1, eq - 1)), value |-> val]>>
                     \o AttrWords(Sub(a, e, Len(a)))

\* serialisation of the attributes DOMPurify keeps
RECURSIVE KeptAttrs(_)
KeptAttrs(ws) ==
    IF ws = <<>> THEN <<>>
    ELSE (IF Head(ws).name \in AllowedAttrs
          THEN <<" ">> \o Head(ws).name \o <<"=", "\"">> \o Head(ws).value \o <<"\"">>
          ELSE <<>>)
             \o KeptAttrs(Tail(ws))

\* the character reference at position i of s, where s[i] = "&": the character
\* it stands for and the position after it; a bare "&" stands for itself
CharRef(s, i) ==
    LET after(n) == IF i + n <= Len(s) /\ s[i + n] = ";" THEN i + n + 1 ELSE i + n
    IN  IF At(s, i, <<"&", "a", "m", "p">>) THEN [ch |-> "&", next |-> after(4)]
        ELSE IF At(s, i, <<"&", "l", "t">>) THEN [ch |-> "<", next |-> after(3)]
        ELSE IF At(s, i, <<"&", "g", "t">>) THEN [ch |-> ">", next |-> after(3)]
        ELSE [ch |-> "&", next |-> i + 1]

\* DOMPurify.sanitize(html) from position i on
RECURSIVE Purify(_, _)
Purify(s, i) ==
    IF i > Len(s) THEN <<>>
    ELSE IF TagStartsAt(s, i)
    THEN LET tk == TagToken(s, i)
         IN  IF tk.gt > Len(s) THEN <<>>
             ELSE IF ~tk.closing /\ tk.name = ScriptName THEN Purify(s, ScriptEnd(s, tk.gt + 1))
             ELSE IF tk.name \in AllowedTags
             THEN (IF tk.closing THEN EndTag(tk.name)
                   ELSE <<"<">> \o tk.name \o KeptAttrs(AttrWords(tk.attrs)) \o <<">">>)
                      \o Purify(s, tk.gt + 1)
             ELSE Purify(s, tk.gt + 1)
    ELSE IF s[i] = "<" /\ i + 2 <= Len(s) /\ s[i + 1] = "/"
    THEN \* "</" before something that is no letter: a comment up to the next ">"
         Purify(s, FirstIn(s, i + 2, {">"}) + 1)
    ELSE IF s[i] = "&"
    THEN escapeChar(CharRef(s, i).ch) \o Purify(s, CharRef(s, i).next)
    ELSE escapeChar(s[i]) \o Purify(s, i + 1)

sanitizeHtml_Passthrough(html) == html

\* the script tags cut out of s in one pass from position i on, nothing else done
RECURSIVE CutScriptTags(_, _)
CutScriptTags(s, i) ==
    IF i > Len(s) THEN <<>>
    ELSE IF At(s, i, Tag(ScriptName)) THEN CutScriptTags(s, i + Len(Tag(ScriptName)))
    ELSE IF At(s, i, EndTag(ScriptName)) THEN CutScriptTags(s, i + Len(EndTag(ScriptName)))
    ELSE <<s[i]>> \o CutScriptTags(s, i + 1)

sanitizeHtml_CutScriptTags(html) == CutScriptTags(html, 1)

\* utils.ts sanitizeHtml
sanitizeHtml(html) == Purify(html, 1)

\* the textContent of a detached div whose innerHTML is set to s, from position i on
RECURSIVE TextContent(_, _)
TextContent(s, i) ==
    IF i > Len(s) THEN <<>>
    ELSE IF TagStartsAt(s, i)
    THEN LET tk == TagToken(s, i)
         IN  IF tk.gt > Len(s) THEN <<>>
             ELSE IF ~tk.closing /\ tk.name = ScriptName
             THEN Sub(s, tk.gt + 1, ScriptClose(s, tk.gt + 1) - 1)
                      \o TextContent(s, ScriptEnd(s, tk.gt + 1))
             ELSE TextContent(s, tk.gt + 1)
    ELSE IF s[i] = "<" /\ i + 2 <= Len(s) /\ s[i + 1] = "/"
    THEN TextContent(s, FirstIn(s, i + 2, {">"}) + 1)
    ELSE IF s[i] = "&"
    THEN <<CharRef(s, i).ch>> \o TextContent(s, CharRef(s, i).next)
    ELSE <<s[i]>> \o TextContent(s, i + 1)

stripHtml_NoDecode(html) ==
    Trim(CollapseWs(TextContent(
        Flatten([i \in 1..Len(html) |->
            IF html[i] = "&" THEN <<"&", "a", "m", "p", ";">> ELSE <<html[i]>>]), 1)))

\* utils.ts stripHtml: the text content, whitespace collapsed, trimmed
stripHtml(html) == Trim(CollapseWs(TextContent(html, 1)))

----------------------------------------------------------------------------
(* Render pipeline: utils.ts renderForPreview                              *)

renderForPreview_HtmlUnsanitized(c) ==
    IF c = <<>> THEN <<>>
    ELSE IF isLikelyHtml(c) THEN c
    ELSE sanitizeHtml(toHtmlFromContent(c))

renderForPreview(c) ==
    IF c = <<>> THEN <<>>
    ELSE sanitizeHtml(toHtmlFromContent(c))

----------------------------------------------------------------------------
(* All strings over an alphabet up to a length                             *)

StringsUpTo(alphabet, n) == UNION {[1..k -> alphabet] : k \in 0..n}

----------------------------------------------------------------------------
(* Hashing check: two raw inputs that differ only in whitespace runs and   *)
(* letter case.  hs2 is derived from hs1 by edits that change nothing else.*)

MaxHashLen == 3

HashAlphabet == {"a", "B", " ", "\n"}
WsChars == {" ", "\n", "\r"}

OtherCase(c) ==
    IF c \in Upper THEN LowerOf(c)
    ELSE IF c \in Lower THEN UpperSeq[CHOOSE i \in 1..Len(LowerSeq) : LowerSeq[i] = c]
    ELSE c

HashInit ==
    /\ hs1 \in StringsUpTo(HashAlphabet, MaxHashLen)
    /\ hs2 = hs1
    /\ hd1 = <<>>
    /\ hd2 = <<>>
    /\ hn = <<>>
    /\ hnn = <<>>
    /\ hpc = "edit"

\* change the case of one letter
ToggleCase ==
    /\ OnlyHash
    /\ hpc = "edit"
    /\ \E i \in 1..Len(hs2) :
           /\ IsAlpha(hs2[i])
           /\ hs2' = [hs2 EXCEPT ![i] = OtherCase(hs2[i])]
           /\ UNCHANGED <<hs1, hd1, hd2, hn, hnn, hpc>>

\* lengthen a whitespace run by one whitespace character
GrowRun ==
    /\ OnlyHash
    /\ hpc = "edit"
    /\ \E i \in 1..Len(hs2), w \in WsChars :
           /\ Len(hs2) <= MaxHashLen
           /\ IsWs(hs2[i])
           /\ hs2' = Sub(hs2, 1, i) \o <<w>> \o Sub(hs2, i + 1, Len(hs2))
           /\ UNCHANGED <<hs1, hd1, hd2, hn, hnn, hpc>>

\* shorten a whitespace run of two or more characters by one
ShrinkRun ==
    /\ OnlyHash
    /\ hpc = "edit"
    /\ \E i \in 1..(Len(hs2) - 1) :
           /\ IsWs(hs2[i]) /\ IsWs(hs2[i + 1])
           /\ hs2' = Sub(hs2, 1, i - 1) \o Sub(hs2, i + 1, Len(hs2))
           /\ UNCHANGED <<hs1, hd1, hd2, hn, hnn, hpc>>

\* replace one whitespace character by another (line-ending style, tab for space)
ChangeWs ==
    /\ OnlyHash
    /\ hpc = "edit"
    /\ \E i \in 1..Len(hs2), w \in WsChars :
           /\ IsWs(hs2[i]) /\ w # hs2[i]
           /\ hs2' = [hs2 EXCEPT ![i] = w]
           /\ UNCHANGED <<hs1, hd1, hd2, hn, hnn, hpc>>

\* both inputs are normalised and hashed, as every save path does
HashBoth ==
    /\ OnlyHash
    /\ hpc = "edit"
    /\ hd1' = sha256Hex(normalizeContent(hs1))
    /\ hd2' = sha256Hex(normalizeContent(hs2))
    /\ hpc' = "hashed"
    /\ UNCHANGED <<hs1, hs2, hn, hnn>>

\* normalizeContent applied to the second input and then to its own result
Renormalize ==
    /\ OnlyHash
    /\ hpc = "hashed"
    /\ hn' = normalizeContent(hs2)
    /\ hnn' = normalizeContent(normalizeContent(hs2))
    /\ hpc' = "renormalized"
    /\ UNCHANGED <<hs1, hs2, hd1, hd2>>

HashNext == ToggleCase \/ GrowRun \/ ShrinkRun \/ ChangeWs \/ HashBoth \/ Renormalize

HashQuiet ==
    /\ hs1 = <<>> /\ hs2 = <<>> /\ hd1 = <<>> /\ hd2 = <<>>
    /\ hn = <<>> /\ hnn = <<>> /\ hpc = "off"

----------------------------------------------------------------------------
(* Create tab save paths and the content store                             *)
(*   handleSubmit : src/src/components/dashboard/tabs/CreateTab.tsx        *)
(*   onSubmit     : src/unnamed/part_006 (the form-library build)          *)
(* Every await is a point where another session may run.                   *)

Sessions == {"s1", "s2"}
Users    == {"u1", "u2"}

\* the rows the store may hold before inserts are refused by the model
MaxRows == 2

\* fullHash.substring(0, 32)
HashPrefixLen == 32

\* what users type into the content field
Contents ==
    { <<"H", "i", " ", "a">>,
      <<"h", "i", " ", " ", "A">>,
      <<"b", "y", "e">>,
      <<" ">> }

\* x and y differ at most in letter case and in the length or kind of their
\* whitespace runs (stated without reference to normalizeContent)
RECURSIVE Similar(_, _)
Similar(x, y) ==
    IF x = <<>> \/ y = <<>> THEN x = y
    ELSE IF IsWs(Head(x)) /\ IsWs(Head(y))
         THEN LET dropWs(s) ==
                     LET k == CHOOSE n \in 0..Len(s) :
                                 /\ \A i \in 1..n : IsWs(s[i])
                                 /\ (n < Len(s) => ~IsWs(s[n + 1]))
                     IN  Sub(s, k + 1, Len(s))
              IN  Similar(dropWs(x), dropWs(y))
         ELSE /\ ~IsWs(Head(x)) /\ ~IsWs(Head(y))
              /\ LowerOf(Head(x)) = LowerOf(Head(y))
              /\ Similar(Tail(x), Tail(y))

IdleSession(u) ==
    [user |-> u, pc |-> "idle", handler |-> "none", form |-> <<>>, hash |-> <<>>,
     dupAtStart |-> FALSE, last |-> "none"]

StoreInit ==
    /\ content = <<>>
    /\ sess \in [Sessions -> {IdleSession(u) : u \in Users}]
    /\ sess["s1"].user = "u1"

\* rows a duplicate query returns: .eq('user_id', user.id).eq('content_hash', h)
Matching(u, h) == {i \in 1..Len(content) : content[i].user_id = u /\ content[i].content_hash = h}

\* some row the user saved earlier through the Create tab holds similar content
SavedSimilar(u, c) ==
    \E i \in 1..Len(content) : content[i].user_id = u /\ Similar(content[i].content, c)

\* CreateTab.tsx handleSubmit, lines 32-34
contentHash_handleSubmit(c) == Sub(sha256Hex(normalizeContent(c)), 1, HashPrefixLen)

\* part_006 checkForDuplicates lines 225-226 and onSubmit lines 271-272
contentHash_onSubmit(c) == sha256Hex(normalizeContent(c))

\* handleSubmit up to its first await: the guard, the hash
SubmitCreate(s) ==
    /\ OnlyStore
    /\ \E c \in Contents :
           /\ sess[s].pc = "idle"
           /\ Trim(c) # <<>>
           /\ sess' = [sess EXCEPT ![s] =
                   [@ EXCEPT !.pc = "check", !.handler = "handleSubmit", !.form = c,
                             !.hash = contentHash_handleSubmit(c),
                             !.dupAtStart = SavedSimilar(sess[s].user, c),
                             !.last = "none"]]
           /\ UNCHANGED content

\* handleSubmit: the duplicate query with .maybeSingle() and what follows it
CheckCreate(s) ==
    /\ OnlyStore
    /\ sess[s].pc = "check" /\ sess[s].handler = "handleSubmit"
    /\ \E queryOk \in BOOLEAN :
        LET n == Cardinality(Matching(sess[s].user, sess[s].hash))
        IN  sess' = [sess EXCEPT ![s] =
                IF ~queryOk \/ n > 1
                THEN [@ EXCEPT !.pc = "idle", !.last = "error"]
                ELSE IF n = 1
                THEN [@ EXCEPT !.pc = "idle", !.last = "duplicate"]
                ELSE [@ EXCEPT !.pc = "insert"]]
    /\ UNCHANGED content

\* handleSubmit: the insert, then the form reset
InsertCreate(s) ==
    /\ OnlyStore
    /\ sess[s].pc = "insert" /\ sess[s].handler = "handleSubmit"
    /\ \E insertOk \in BOOLEAN :
        IF insertOk /\ Len(content) < MaxRows
        THEN /\ content' = Append(content,
                    [user_id |-> sess[s].user, content |-> Trim(sess[s].form),
                     content_hash |-> sess[s].hash])
             /\ sess' = [sess EXCEPT ![s] = [@ EXCEPT !.pc = "idle", !.form = <<>>, !.last = "saved"]]
        ELSE /\ sess' = [sess EXCEPT ![s] = [@ EXCEPT !.pc = "idle", !.last = "error"]]
             /\ UNCHANGED content

\* onSubmit up to the first await inside checkForDuplicates
SubmitForm(s) ==
    /\ OnlyStore
    /\ \E c \in Contents :
           /\ sess[s].pc = "idle"
           /\ Len(c) >= 1
           /\ sess' = [sess EXCEPT ![s] =
                   [@ EXCEPT !.pc = "check", !.handler = "onSubmit", !.form = c,
                             !.hash = contentHash_onSubmit(c),
                             !.dupAtStart = SavedSimilar(sess[s].user, c),
                             !.last = "none"]]
           /\ UNCHANGED content

\* checkForDuplicates: the query with .limit(1); its error is not looked at, so a
\* failed query yields data = null and the function returns null
CheckForm(s) ==
    /\ OnlyStore
    /\ sess[s].pc = "check" /\ sess[s].handler = "onSubmit"
    /\ \E queryOk \in BOOLEAN :
        LET n == Cardinality(Matching(sess[s].user, sess[s].hash))
        IN  sess' = [sess EXCEPT ![s] =
                IF queryOk /\ n > 0
                THEN [@ EXCEPT !.pc = "idle", !.last = "duplicate"]
                ELSE [@ EXCEPT !.pc = "insert"]]
    /\ UNCHANGED content

\* onSubmit: the insert, then form.reset() and clearDraft()
InsertForm(s) ==
    /\ OnlyStore
    /\ sess[s].pc = "insert" /\ sess[s].handler = "onSubmit"
    /\ \E insertOk \in BOOLEAN :
        IF insertOk /\ Len(content) < MaxRows
        THEN /\ content' = Append(content,
                    [user_id |-> sess[s].user, content |-> sess[s].form,
                     content_hash |-> sess[s].hash])
             /\ sess' = [sess EXCEPT ![s] = [@ EXCEPT !.pc = "idle", !.form = <<>>, !.last = "saved"]]
        ELSE /\ sess' = [sess EXCEPT ![s] = [@ EXCEPT !.pc = "idle", !.last = "error"]]
             /\ UNCHANGED content

StoreNext ==
    \E s \in Sessions :
        \/ SubmitCreate(s)
        \/ CheckCreate(s)
        \/ InsertCreate(s)
        \/ SubmitForm(s)
        \/ CheckForm(s)
        \/ InsertForm(s)

StoreQuiet == content = <<>> /\ sess = [s \in Sessions |-> IdleSession("u1")]

----------------------------------------------------------------------------
(* Render check: renderForPreview applied to bounded inputs                *)

\* an input is a concatenation of at most MaxRenderFrags fragments
MaxRenderFrags == 3

RenderFragments ==
    { <<"a">>, <<" ">>, <<"\n">>, <<"*">>, <<"#", " ">>, <<"<">>, <<"&">>,
      <<"<", "b", ">">>, <<"<", "/", "b", ">">>,
      <<"<", "s", "c", "r", "i", "p", "t", ">">>,
      <<"<", "/", "s", "c", "r", "i", "p", "t", ">">>,
      <<"<", "i", " ", "o", "n", "c", "l", "i", "c", "k", "=", "a", ">">> }

\* "<script>alert(1)</script>Hello" of the spec's testable properties
ScriptExample ==
    <<"<", "s", "c", "r", "i", "p", "t", ">", "a", "l", "e", "r", "t", "(", "1", ")",
      "<", "/", "s", "c", "r", "i", "p", "t", ">", "H", "e", "l", "l", "o">>

Concats(frags, n) == {Flatten(fs) : fs \in UNION {[1..k -> frags] : k \in 0..n}}

\* prose with comparison operators: operands joined by < and >, with or without
\* spaces around the operator, at most MaxOperators operators in a text
MaxOperators == 2

Operands == { <<"1">>, <<"b", " ", "a", "n", "d", " ", "c">> }
Operators == { <<"<">>, <<">">>, <<" ", "<", " ">>, <<" ", ">", " ">> }

RECURSIVE ProseTexts(_)
ProseTexts(n) ==
    IF n = 0 THEN Operands
    ELSE {p \o o \o w : p \in ProseTexts(n - 1), o \in Operators, w \in Operands}

\* "compare a < b and a > b"
ComparisonExample ==
    <<"c", "o", "m", "p", "a", "r", "e", " ", "a", " ", "<", " ", "b", " ",
      "a", "n", "d", " ", "a", " ", ">", " ", "b">>

ProseInputs == UNION {ProseTexts(n) : n \in 1..MaxOperators} \cup {ComparisonExample}

RenderInputs == Concats(RenderFragments, MaxRenderFrags) \cup {ScriptExample} \cup ProseInputs

RenderInit ==
    /\ rIn \in RenderInputs
    /\ rHtml = <<>> /\ rPlain = <<>> /\ rOut = <<>> /\ rOut2 = <<>>
    /\ rpc = "new"

\* toHtmlFromContent(content), as the rich editor switch and renderForPreview call
\* it, and toHtmlFromPlainText(content), its last branch, on the same content
Convert ==
    /\ OnlyRender
    /\ rpc = "new"
    /\ rHtml' = toHtmlFromContent(rIn)
    /\ rPlain' = toHtmlFromPlainText(rIn)
    /\ rpc' = "converted"
    /\ UNCHANGED <<rIn, rOut, rOut2>>

\* renderForPreview(content), as every preview surface calls it
Render ==
    /\ OnlyRender
    /\ rpc = "converted"
    /\ rOut' = renderForPreview(rIn)
    /\ rpc' = "rendered"
    /\ UNCHANGED <<rIn, rHtml, rPlain, rOut2>>

\* renderForPreview applied to its own output
Rerender ==
    /\ OnlyRender
    /\ rpc = "rendered"
    /\ rOut2' = renderForPreview(rOut)
    /\ rpc' = "rerendered"
    /\ UNCHANGED <<rIn, rHtml, rPlain, rOut>>

RenderNext == Convert \/ Render \/ Rerender

RenderQuiet ==
    /\ rIn = <<>> /\ rHtml = <<>> /\ rPlain = <<>> /\ rOut = <<>> /\ rOut2 = <<>>
    /\ rpc = "off"

----------------------------------------------------------------------------
(* Plain-text check: toHtmlFromPlainText applied to bounded inputs         *)

MaxPlainLen == 4

PlainAlphabet == {"p", " ", "\n", "\r", "<", ">", "&", "\"", "'"}

PlainInit ==
    /\ pIn \in StringsUpTo(PlainAlphabet, MaxPlainLen)
    /\ pOut = <<>>
    /\ pBack = <<>>
    /\ pAlt = <<>> /\ pAltOut = <<>>
    /\ ppc = "new"

ConvertPlain ==
    /\ OnlyPlain
    /\ ppc = "new"
    /\ pOut' = toHtmlFromPlainText(pIn)
    /\ ppc' = "done"
    /\ UNCHANGED <<pIn, pBack, pAlt, pAltOut>>

\* stripHtml(html) applied to the converter's output, as the switch back to the
\* plain editor and the Library tab apply it to HTML content
StripBack ==
    /\ OnlyPlain
    /\ ppc = "done"
    /\ pBack' = stripHtml(pOut)
    /\ ppc' = "stripped"
    /\ UNCHANGED <<pIn, pOut, pAlt, pAltOut>>

\* the three ways a line ending is written
LineEndingStyles == { <<"\n">>, <<"\r", "\n">>, <<"\r">> }

\* s with every one of its line endings (CRLF read as one) written as e
RECURSIVE InStyle(_, _)
InStyle(s, e) ==
    IF s = <<>> THEN <<>>
    ELSE IF Head(s) \in LineEnds
         THEN LET rest == IF Len(s) > 1 /\ s[1] = "\r" /\ s[2] = "\n"
                          THEN Tail(Tail(s)) ELSE Tail(s)
              IN  e \o InStyle(rest, e)
         ELSE <<Head(s)>> \o InStyle(Tail(s), e)

\* the same text in each of the three styles
Restyled(s) == {InStyle(s, e) : e \in LineEndingStyles}

\* toHtmlFromPlainText(text) for the same text with other line endings
ConvertRestyled ==
    /\ OnlyPlain
    /\ ppc = "done"
    /\ \E y \in Restyled(pIn) :
           /\ pAlt' = y
           /\ pAltOut' = toHtmlFromPlainText(y)
    /\ ppc' = "restyled"
    /\ UNCHANGED <<pIn, pOut, pBack>>

PlainNext == ConvertPlain \/ StripBack \/ ConvertRestyled

PlainQuiet ==
    /\ pIn = <<>> /\ pOut = <<>> /\ pBack = <<>> /\ pAlt = <<>> /\ pAltOut = <<>>
    /\ ppc = "off"

----------------------------------------------------------------------------
(* Surfaces: every place where content reaches the document as markup      *)

MaxSurfaceFrags == 2

SurfaceFragments ==
    { <<"a">>, <<"*">>, <<"<", "b", ">">>,
      <<"<", "s", "c", "r", "i", "p", "t", ">">>,
      <<"<", "/", "s", "c", "r", "i", "p", "t", ">">>,
      <<"<", "i", " ", "o", "n", "c", "l", "i", "c", "k", "=", "a", ">">>,
      <<" ">>, <<"\n", "b">> }

NoDoc == [surface |-> "none", raw |-> <<>>, markup |-> <<>>]

SurfInit ==
    /\ shown \in Concats(SurfaceFragments, MaxSurfaceFrags)
    /\ typed = shown
    /\ editorMode = "plain"
    /\ doc = NoDoc

\* ContentPreview.tsx: dangerouslySetInnerHTML of renderForPreview(content), unless
\* title and content are both blank
CreatePreview ==
    /\ OnlySurf
    /\ \E titled \in BOOLEAN : titled \/ Trim(shown) # <<>>
    /\ doc' = [surface |-> "createPreview", raw |-> shown, markup |-> renderForPreview(shown)]
    /\ UNCHANGED <<shown, typed, editorMode>>

\* EditTab.tsx lines 436-447: dangerouslySetInnerHTML of sanitizeHtml(editedContent)
EditPreview ==
    /\ OnlySurf
    /\ doc' = [surface |-> "editPreview", raw |-> shown, markup |-> sanitizeHtml(shown)]
    /\ UNCHANGED <<shown, typed, editorMode>>

\* part_005 line 219: an assistant message, dangerouslySetInnerHTML of renderForPreview
AgentMessage ==
    /\ OnlySurf
    /\ doc' = [surface |-> "agentChat", raw |-> shown, markup |-> renderForPreview(shown)]
    /\ UNCHANGED <<shown, typed, editorMode>>

\* EditTab.tsx lines 385-390: the stored content is the rich editor's HTML value
EditEditor ==
    /\ OnlySurf
    /\ doc' = [surface |-> "richEditor", raw |-> shown, markup |-> shown]
    /\ UNCHANGED <<shown, typed, editorMode>>

\* stripHtml(item.content) of the Library tab and the Edit tab word count:
\* tempDiv.innerHTML = html
StripForDisplay ==
    /\ OnlySurf
    /\ doc' = [surface |-> "stripHtml", raw |-> shown, markup |-> shown]
    /\ UNCHANGED <<shown, typed, editorMode>>

\* part_006 handleEditorModeChange('rich') from plain mode
SwitchToRich ==
    /\ OnlySurf
    /\ editorMode = "plain"
    /\ shown' = toHtmlFromContent(shown)
    /\ editorMode' = "rich"
    /\ doc' = [surface |-> "richEditor", raw |-> shown, markup |-> toHtmlFromContent(shown)]
    /\ UNCHANGED typed

\* part_006 handleEditorModeChange('plain') from rich mode
SwitchToPlain ==
    /\ OnlySurf
    /\ editorMode = "rich"
    /\ shown' = stripHtml(shown)
    /\ editorMode' = "plain"
    /\ doc' = [surface |-> "stripHtml", raw |-> shown, markup |-> shown]
    /\ UNCHANGED typed

SurfNext ==
    \/ CreatePreview \/ EditPreview \/ AgentMessage \/ EditEditor
    \/ StripForDisplay \/ SwitchToRich \/ SwitchToPlain

SurfQuiet == shown = <<>> /\ typed = <<>> /\ editorMode = "plain" /\ doc = NoDoc

----------------------------------------------------------------------------
(* Markdown check: simpleMarkdownToHtml and renderForPreview applied to    *)
(* bounded Markdown-like inputs                                            *)

\* an input is a concatenation of at most MaxMarkdownFrags fragments
MaxMarkdownFrags == 4

MarkdownFragments ==
    { <<"#">>, <<"#", "#", "#">>, <<" ">>, <<"a">>, <<"\n">>, <<"*", "*">>, <<"#", " ", "T">>,
      <<"*", "*", "b", "*", "*">>, <<"*">>, <<"\r">> }

\* "# Title\n\nSome **bold** text" of the spec's testable properties
TitleExample ==
    <<"#", " ", "T", "i", "t", "l", "e", "\n", "\n", "S", "o", "m", "e", " ",
      "*", "*", "b", "o", "l", "d", "*", "*", " ", "t", "e", "x", "t">>

MarkdownInputs == Concats(MarkdownFragments, MaxMarkdownFrags) \cup {TitleExample}

MarkInit ==
    /\ mIn \in MarkdownInputs
    /\ mHtml = <<>> /\ mOut = <<>>
    /\ mpc = "new"

\* simpleMarkdownToHtml(content), the Markdown branch of toHtmlFromContent
ConvertMarkdown ==
    /\ OnlyMark
    /\ mpc = "new"
    /\ looksLikeMarkdown(mIn)
    /\ mHtml' = simpleMarkdownToHtml(mIn)
    /\ mpc' = "converted"
    /\ UNCHANGED <<mIn, mOut>>

\* renderForPreview(content) of a preview surface
RenderMarkdown ==
    /\ OnlyMark
    /\ mpc = "converted"
    /\ mOut' = renderForPreview(mIn)
    /\ mpc' = "rendered"
    /\ UNCHANGED <<mIn, mHtml>>

MarkNext == ConvertMarkdown \/ RenderMarkdown

MarkQuiet == mIn = <<>> /\ mHtml = <<>> /\ mOut = <<>> /\ mpc = "off"

----------------------------------------------------------------------------
(* Sanitizer check: sanitizeHtml applied to bounded markup and to its own  *)
(* output                                                                  *)

\* an input is a concatenation of at most MaxSanitizeFrags fragments
MaxSanitizeFrags == 3

SanitizeFragments ==
    { <<"a">>, <<"<">>, <<">">>, <<"&">>, <<"&", "l", "t", ";">>,
      <<"<", "b", ">">>, <<"<", "/", "b", ">">>, <<"<", "x", ">">>,
      <<"<", "s", "c", "r", "i", "p", "t", ">">>,
      <<"<", "/", "s", "c", "r", "i", "p", "t", ">">>,
      <<"<", "s", "c", "r">>, <<"i", "p", "t", ">">>,
      <<"<", "i", " ", "o", "n", "c", "l", "i", "c", "k", "=", "a", ">">> }

SanInit ==
    /\ sIn \in Concats(SanitizeFragments, MaxSanitizeFrags)
    /\ sOut = <<>> /\ sOut2 = <<>>
    /\ spc = "new"

\* sanitizeHtml(html), as the Edit tab preview and renderForPreview call it
Sanitize ==
    /\ OnlySan
    /\ spc = "new"
    /\ sOut' = sanitizeHtml(sIn)
    /\ spc' = "sanitized"
    /\ UNCHANGED <<sIn, sOut2>>

\* sanitizeHtml applied to its own output
Resanitize ==
    /\ OnlySan
    /\ spc = "sanitized"
    /\ sOut2' = sanitizeHtml(sOut)
    /\ spc' = "resanitized"
    /\ UNCHANGED <<sIn, sOut>>

SanNext == Sanitize \/ Resanitize

SanQuiet == sIn = <<>> /\ sOut = <<>> /\ sOut2 = <<>> /\ spc = "off"

----------------------------------------------------------------------------
(* Drafts: src/src/hooks/useAutosaveDraft.ts and the Create form of         *)
(* src/unnamed/part_006 that uses it.  localStorage is shared by everyone   *)
(* who signs in on the browser; Date.now() is the clock.  A handler that    *)
(* changes contentType, isDirty or the user re-runs the restore effect,     *)
(* which is part of that handler's step.                                    *)

\* 7 * 24 * 60 * 60 * 1000 milliseconds
SevenDays == 604800000

\* the clock steps the model takes, and how many of them
ClockSteps == {SevenDays - 1, SevenDays}
MaxTicks == 1

DraftUsers == {"u1", "u2"}
ContentTypes == {"article", "press_release"}
DefaultContentType == "article"
DraftTexts == {"x"}

\* getDraftKey for a signed-in user
getDraftKey(u, ct) == "draft_" \o u \o "_" \o ct

DraftKeys == {getDraftKey(u, ct) : u \in DraftUsers, ct \in ContentTypes}

NoItem == [present |-> FALSE]

DefaultValues == [content |-> "", contentType |-> DefaultContentType, isDirty |-> FALSE]

NeverLoaded ==
    [called |-> FALSE, user |-> "none", contentType |-> "none", at |-> 0,
     age |-> -1, result |-> NoItem, removed |-> FALSE]

isRecent_Inclusive(nowMs, timestamp) == nowMs - timestamp <= SevenDays

\* Date.now() - draft.timestamp < 7 * 24 * 60 * 60 * 1000
isRecent(nowMs, timestamp) == nowMs - timestamp < SevenDays

\* saveDraft(data): the item written under the key; savedBy and savedAs record
\* the user and the content type of the hook that wrote it
saveDraft(store, u, ct, data, nowMs) ==
    [store EXCEPT ![getDraftKey(u, ct)] =
        [present |-> TRUE, content |-> data.content, contentType |-> data.contentType,
         timestamp |-> nowMs, savedBy |-> u, savedAs |-> ct]]

\* clearDraft()
clearDraft(store, u, ct) == [store EXCEPT ![getDraftKey(u, ct)] = NoItem]

\* loadDraft(): what it returns and what it leaves in storage
loadDraft(store, u, ct, nowMs) ==
    LET stored == store[getDraftKey(u, ct)]
    IN  IF ~stored.present THEN [result |-> NoItem, store |-> store]
        ELSE IF ~isRecent(nowMs, stored.timestamp)
             THEN [result |-> NoItem, store |-> clearDraft(store, u, ct)]
             ELSE [result |-> stored, store |-> store]

\* the record kept of a loadDraft call
LoadRecord(store, u, ct, nowMs) ==
    LET stored == store[getDraftKey(u, ct)]
        out == loadDraft(store, u, ct, nowMs)
    IN  [called |-> TRUE, user |-> u, contentType |-> ct, at |-> nowMs,
         age |-> IF stored.present THEN nowMs - stored.timestamp ELSE -1,
         result |-> out.result,
         removed |-> ~out.store[getDraftKey(u, ct)].present]

\* the effect "Load draft on mount or content type change" run on form f
RestoreEffect(store, u, f, nowMs) ==
    LET out == loadDraft(store, u, f.contentType, nowMs)
    IN  [form  |-> IF out.result.present /\ ~f.isDirty
                   THEN [f EXCEPT !.content = out.result.content,
                                  !.contentType = out.result.contentType]
                   ELSE f,
         store |-> out.store,
         loaded |-> LoadRecord(store, u, f.contentType, nowMs)]

DraftInit ==
    /\ localStorage = [k \in DraftKeys |-> NoItem]
    /\ clock = 0 /\ ticks = 0
    /\ draftUser = "u1"
    /\ form = DefaultValues
    /\ submitting = [active |-> FALSE, contentType |-> "none"]
    /\ loaded = NeverLoaded
    /\ sinceSubmit = FALSE

\* what a handler leaves after it set the form to f and storage to store
AfterHandler(store, f) ==
    LET eff == RestoreEffect(store, draftUser, f, clock)
    IN  /\ form' = eff.form
        /\ localStorage' = eff.store
        /\ loaded' = eff.loaded

\* another user signs in and the Create tab mounts with its default values
Mount ==
    /\ OnlyDraft
    /\ ~submitting.active
    /\ \E u \in DraftUsers :
           LET eff == RestoreEffect(localStorage, u, DefaultValues, clock)
           IN  /\ draftUser' = u
               /\ form' = eff.form
               /\ localStorage' = eff.store
               /\ loaded' = eff.loaded
    /\ sinceSubmit' = FALSE
    /\ UNCHANGED <<clock, ticks, submitting>>

\* the user types into the content field
TypeContent ==
    /\ OnlyDraft
    /\ \E c \in DraftTexts :
           AfterHandler(localStorage, [form EXCEPT !.content = c, !.isDirty = TRUE])
    /\ sinceSubmit' = FALSE
    /\ UNCHANGED <<clock, ticks, draftUser, submitting>>

\* the user picks another content type
ChangeType ==
    /\ OnlyDraft
    /\ \E ct \in ContentTypes \ {form.contentType} :
           AfterHandler(localStorage, [form EXCEPT !.contentType = ct, !.isDirty = TRUE])
    /\ sinceSubmit' = FALSE
    /\ UNCHANGED <<clock, ticks, draftUser, submitting>>

\* the debounce timer of the autosave effect fires
Autosave ==
    /\ OnlyDraft
    /\ form.isDirty
    /\ localStorage' = saveDraft(localStorage, draftUser, form.contentType,
                                 [content |-> form.content, contentType |-> form.contentType],
                                 clock)
    /\ UNCHANGED <<clock, ticks, draftUser, form, submitting, loaded, sinceSubmit>>

\* onSubmit up to its first await; the form library has validated content
SubmitDraft ==
    /\ OnlyDraft
    /\ ~submitting.active
    /\ form.content # ""
    /\ submitting' = [active |-> TRUE, contentType |-> form.contentType]
    /\ UNCHANGED <<localStorage, clock, ticks, draftUser, form, loaded, sinceSubmit>>

\* onSubmit after a successful insert: form.reset(), clearDraft()
SubmitSaved ==
    /\ OnlyDraft
    /\ submitting.active
    /\ AfterHandler(clearDraft(localStorage, draftUser, submitting.contentType),
                    DefaultValues)
    /\ submitting' = [active |-> FALSE, contentType |-> "none"]
    /\ sinceSubmit' = TRUE
    /\ UNCHANGED <<clock, ticks, draftUser>>

\* onSubmit when a duplicate is found or the insert fails
SubmitRefused ==
    /\ OnlyDraft
    /\ submitting.active
    /\ submitting' = [active |-> FALSE, contentType |-> "none"]
    /\ UNCHANGED <<localStorage, clock, ticks, draftUser, form, loaded, sinceSubmit>>

\* time passes
ClockAdvances ==
    /\ OnlyDraft
    /\ ticks < MaxTicks
    /\ \E d \in ClockSteps : clock' = clock + d
    /\ ticks' = ticks + 1
    /\ UNCHANGED <<localStorage, draftUser, form, submitting, loaded, sinceSubmit>>

DraftNext ==
    \/ Mount
    \/ TypeContent
    \/ ChangeType
    \/ Autosave
    \/ SubmitDraft
    \/ SubmitSaved
    \/ SubmitRefused
    \/ ClockAdvances

DraftQuiet ==
    /\ localStorage = [k \in DraftKeys |-> NoItem]
    /\ clock = 0 /\ ticks = 0
    /\ draftUser = "none"
    /\ form = DefaultValues
    /\ submitting = [active |-> FALSE, contentType |-> "none"]
    /\ loaded = NeverLoaded
    /\ sinceSubmit = FALSE

----------------------------------------------------------------------------
(* Content rows and the Edit tab                                            *)
(*   handleSave      : src/src/components/dashboard/tabs/EditTab.tsx        *)
(*   handleDuplicate : src/src/components/dashboard/tabs/LibraryTab.tsx     *)
(*   handleSaveReply : src/unnamed/part_005                                 *)
(*   handleSynthesize: src/src/components/dashboard/SynthesizeDialog.tsx    *)
(* The rows of public.content carry content_hash; public.content_versions   *)
(* holds the edit history.  No trigger of the migration maintains           *)
(* content_hash.                                                            *)

\* rows the table may hold before inserts are refused by the model
MaxContentRows == 2

ContentIds == 1..MaxContentRows

\* version rows the history may hold before inserts are refused by the model
MaxVersions == 2

EditTexts == { <<"a">>, <<"b">> }
EditTitles == {"t", "u"}

\* the title a new row is given
NewTitle == "t"

\* a column that was not given in the insert: content_hash TEXT has no default
Null == <<>>

NoRow == [present |-> FALSE]
NoSelection == [id |-> 0, title |-> "", content |-> <<>>]
NoSave == [active |-> FALSE, id |-> 0, title |-> "", content |-> <<>>,
           rowBefore |-> NoRow, versionsBefore |-> 0]

\* the id the table gives the next row
FreeIds == {i \in ContentIds : ~contentTable[i].present}
NextId == CHOOSE i \in FreeIds : \A j \in FreeIds : i <= j

\* .insert({...}) into public.content
InsertRow(t, c, h) ==
    contentTable' = [contentTable EXCEPT ![NextId] =
        [present |-> TRUE, title |-> t, content |-> c, content_hash |-> h]]

\* const hasUnsavedChanges = editedContent !== originalContent || editedTitle !== selectedContent?.title
hasUnsavedChanges ==
    editedContent # originalContent \/ editedTitle # selectedContent.title

EditInit ==
    /\ contentTable = [i \in ContentIds |-> NoRow]
    /\ contentVersions = <<>>
    /\ selectedContent = NoSelection
    /\ originalContent = <<>> /\ editedContent = <<>> /\ editedTitle = ""
    /\ saving = NoSave
    /\ saveResult = "none"
    /\ cleanSinceSave = FALSE

EditFrame == UNCHANGED <<selectedContent, originalContent, editedContent, editedTitle,
                         saving, saveResult, cleanSinceSave>>

\* Create tab, handleSubmit: the row goes in with the hash of its content
CreateSave ==
    /\ OnlyEdit
    /\ FreeIds # {}
    /\ \E c \in EditTexts : InsertRow(NewTitle, c, contentHash_handleSubmit(c))
    /\ UNCHANGED contentVersions
    /\ EditFrame

\* Library tab, handleDuplicate: a copy of a listed row
DuplicateRow ==
    /\ OnlyEdit
    /\ FreeIds # {}
    /\ \E i \in ContentIds :
           /\ contentTable[i].present
           /\ InsertRow(contentTable[i].title, contentTable[i].content, Null)
    /\ UNCHANGED contentVersions
    /\ EditFrame

\* Agent tab handleSaveReply and SynthesizeDialog handleSynthesize: generated
\* text goes in as a new row
SaveGenerated ==
    /\ OnlyEdit
    /\ FreeIds # {}
    /\ \E c \in EditTexts : InsertRow(NewTitle, c, Null)
    /\ UNCHANGED contentVersions
    /\ EditFrame

\* Dashboard handleSelectContent and the effect of EditTab on selectedContent
SelectContent ==
    /\ OnlyEdit
    /\ ~saving.active
    /\ \E i \in ContentIds :
           /\ contentTable[i].present
           /\ selectedContent' = [id |-> i, title |-> contentTable[i].title,
                                  content |-> contentTable[i].content]
           /\ originalContent' = contentTable[i].content
           /\ editedContent' = contentTable[i].content
           /\ editedTitle' = contentTable[i].title
    /\ cleanSinceSave' = FALSE
    /\ UNCHANGED <<contentTable, contentVersions, saving, saveResult>>

\* the user edits the content
EditContent ==
    /\ OnlyEdit
    /\ selectedContent # NoSelection
    /\ \E c \in EditTexts \ {editedContent} : editedContent' = c
    /\ cleanSinceSave' = FALSE
    /\ UNCHANGED <<contentTable, contentVersions, selectedContent, originalContent,
                   editedTitle, saving, saveResult>>

\* the user edits the title
EditTitle ==
    /\ OnlyEdit
    /\ selectedContent # NoSelection
    /\ \E t \in EditTitles \ {editedTitle} : editedTitle' = t
    /\ cleanSinceSave' = FALSE
    /\ UNCHANGED <<contentTable, contentVersions, selectedContent, originalContent,
                   editedContent, saving, saveResult>>

\* handleSave: the insert into content_versions, and the throw when it fails
SaveVersion ==
    /\ OnlyEdit
    /\ selectedContent # NoSelection
    /\ ~saving.active
    /\ \E versionOk \in BOOLEAN :
           IF versionOk /\ Len(contentVersions) < MaxVersions
           THEN /\ contentVersions' = Append(contentVersions,
                        [content_id |-> selectedContent.id, title |-> editedTitle,
                         content |-> editedContent])
                /\ saving' = [active |-> TRUE, id |-> selectedContent.id,
                              title |-> editedTitle, content |-> editedContent,
                              rowBefore |-> contentTable[selectedContent.id],
                              versionsBefore |-> Len(contentVersions)]
                /\ saveResult' = "none"
           ELSE /\ UNCHANGED <<contentVersions, saving>>
                /\ saveResult' = "error"
    /\ cleanSinceSave' = FALSE
    /\ UNCHANGED <<contentTable, selectedContent, originalContent, editedContent,
                   editedTitle>>

\* handleSave: the update of the content row, setOriginalContent, or the throw
SaveContent ==
    /\ OnlyEdit
    /\ saving.active
    /\ \E updateOk \in BOOLEAN :
           IF updateOk
           THEN /\ contentTable' = [contentTable EXCEPT ![saving.id] =
                        [@ EXCEPT !.title = saving.title, !.content = saving.content]]
                /\ originalContent' = saving.content
                /\ saveResult' = "saved"
                /\ cleanSinceSave' =
                       (editedContent = saving.content /\ editedTitle = saving.title)
           ELSE /\ UNCHANGED <<contentTable, originalContent>>
                /\ saveResult' = "error"
                /\ cleanSinceSave' = FALSE
    /\ saving' = [saving EXCEPT !.active = FALSE]
    /\ UNCHANGED <<contentVersions, selectedContent, editedContent, editedTitle>>

EditNext ==
    \/ CreateSave
    \/ DuplicateRow
    \/ SaveGenerated
    \/ SelectContent
    \/ EditContent
    \/ EditTitle
    \/ SaveVersion
    \/ SaveContent

EditQuiet ==
    /\ contentTable = [i \in ContentIds |-> NoRow]
    /\ contentVersions = <<>>
    /\ selectedContent = NoSelection
    /\ originalContent = <<>> /\ editedContent = <<>> /\ editedTitle = ""
    /\ saving = NoSave
    /\ saveResult = "off"
    /\ cleanSinceSave = FALSE

----------------------------------------------------------------------------
(* Library tab: src/src/components/dashboard/tabs/LibraryTab.tsx            *)
(* The list `content` holds the rows of the last load that pass the         *)
(* filters; selectedItems holds the ids ticked for bulk actions.  Rows are  *)
(* named by their ids here.                                                 *)

\* the rows of the user's library before anything is deleted
MaxLibraryItems == 3

LibraryIds == 1..MaxLibraryItems

NoRequest == [kind |-> "none", ids |-> {}]

LibInit ==
    /\ libraryRows = LibraryIds
    /\ contentList = LibraryIds
    /\ selectedItems = {}
    /\ request = NoRequest

\* handleSelectItem(itemId)
handleSelectItem(prev, itemId) ==
    IF itemId \in prev THEN prev \ {itemId} ELSE prev \cup {itemId}

\* handleSelectAll()
handleSelectAll(prev, list) ==
    IF Cardinality(prev) = Cardinality(list) THEN {} ELSE list

\* the checkbox of a listed item
SelectItem ==
    /\ OnlyLib
    /\ \E id \in contentList : selectedItems' = handleSelectItem(selectedItems, id)
    /\ UNCHANGED <<libraryRows, contentList, request>>

\* the "select all" checkbox
SelectAll ==
    /\ OnlyLib
    /\ contentList # {}
    /\ selectedItems' = handleSelectAll(selectedItems, contentList)
    /\ UNCHANGED <<libraryRows, contentList, request>>

\* handleDelete(contentId) up to its await
DeleteItem ==
    /\ OnlyLib
    /\ request = NoRequest
    /\ \E id \in contentList : request' = [kind |-> "delete", ids |-> {id}]
    /\ UNCHANGED <<libraryRows, contentList, selectedItems>>

\* handleDelete after the await: the row is gone and is filtered out of the list,
\* or the error is shown
DeleteDone ==
    /\ OnlyLib
    /\ request.kind = "delete"
    /\ \E ok \in BOOLEAN :
           IF ok
           THEN /\ libraryRows' = libraryRows \ request.ids
                /\ contentList' = contentList \ request.ids
           ELSE UNCHANGED <<libraryRows, contentList>>
    /\ request' = NoRequest
    /\ UNCHANGED selectedItems

\* handleBulkDelete() up to its await
BulkDelete ==
    /\ OnlyLib
    /\ request = NoRequest
    /\ selectedItems # {}
    /\ request' = [kind |-> "bulk", ids |-> selectedItems]
    /\ UNCHANGED <<libraryRows, contentList, selectedItems>>

\* handleBulkDelete after the await
BulkDeleteDone ==
    /\ OnlyLib
    /\ request.kind = "bulk"
    /\ \E ok \in BOOLEAN :
           IF ok
           THEN /\ libraryRows' = libraryRows \ request.ids
                /\ contentList' = contentList \ request.ids
                /\ selectedItems' = {}
           ELSE UNCHANGED <<libraryRows, contentList, selectedItems>>
    /\ request' = NoRequest

\* loadContent() after a change of filter, sort order or search text: the list
\* becomes the stored rows that pass the filters
ReloadList ==
    /\ OnlyLib
    /\ \E passing \in SUBSET LibraryIds : contentList' = libraryRows \cap passing
    /\ UNCHANGED <<libraryRows, selectedItems, request>>

LibNext ==
    \/ SelectItem
    \/ SelectAll
    \/ DeleteItem
    \/ DeleteDone
    \/ BulkDelete
    \/ BulkDeleteDone
    \/ ReloadList

LibQuiet ==
    /\ libraryRows = {}
    /\ contentList = {}
    /\ selectedItems = {}
    /\ request = NoRequest

----------------------------------------------------------------------------
(* Agent chat: handleSubmit of src/unnamed/part_005 and of                  *)
(* src/src/components/dashboard/tabs/AgentTab.tsx.  The text field and the  *)
(* send button are disabled while isLoading.                                *)

\* messages the transcript may hold before the model stops submitting
MaxMessages == 7

ChatInputs == { <<>>, <<" ">>, <<"h", "i">>, <<" ", "h", "i">> }

\* how the request of a submission can end: a reply, a response without a reply
\* text, an error result, a thrown error
Outcomes == {"response", "noResponse", "error", "thrown"}

Greeting == [role |-> "assistant", kind |-> "greeting", content |-> <<>>]

\* if (!input.trim() || isLoading) return;
accepts(text, loading) == Trim(text) # <<>> /\ ~loading

\* the message the try block or the catch block appends for an outcome
afterReply_DropThrown(msgs, outcome) ==
    IF outcome = "thrown" THEN msgs
    ELSE Append(msgs, [role |-> "assistant", kind |-> outcome, content |-> <<>>])

afterReply(msgs, outcome) ==
    Append(msgs, [role |-> "assistant", kind |-> outcome, content |-> <<>>])

AgentInit ==
    /\ messages = <<Greeting>>
    /\ input = <<>>
    /\ isLoading = FALSE
    /\ pending = 0
    /\ accepted = 0 /\ answered = 0

\* the user types into the message field, which is disabled while loading
TypeMessage ==
    /\ OnlyAgent
    /\ ~isLoading
    /\ \E text \in ChatInputs \ {input} : input' = text
    /\ UNCHANGED <<messages, isLoading, pending, accepted, answered>>

\* handleSubmit up to its await: Enter in the field or the send button
SubmitMessage ==
    /\ OnlyAgent
    /\ Len(messages) < MaxMessages
    /\ accepts(input, isLoading)
    /\ messages' = Append(messages, [role |-> "user", kind |-> "typed",
                                     content |-> Trim(input)])
    /\ input' = <<>>
    /\ isLoading' = TRUE
    /\ pending' = pending + 1
    /\ accepted' = accepted + 1
    /\ UNCHANGED answered

\* handleSubmit after the await: the reply or an error text is appended and the
\* finally block clears isLoading
ReceiveReply ==
    /\ OnlyAgent
    /\ pending > 0
    /\ \E outcome \in Outcomes : messages' = afterReply(messages, outcome)
    /\ isLoading' = FALSE
    /\ pending' = pending - 1
    /\ answered' = answered + 1
    /\ UNCHANGED <<input, accepted>>

\* the user leaves the tab and comes back: the component mounts anew and a
\* request of the old instance no longer reaches it
RemountAgent ==
    /\ OnlyAgent
    /\ Len(messages) > 1
    /\ messages' = <<Greeting>>
    /\ input' = <<>>
    /\ isLoading' = FALSE
    /\ pending' = 0
    /\ accepted' = 0 /\ answered' = 0

AgentNext ==
    \/ TypeMessage
    \/ SubmitMessage
    \/ ReceiveReply
    \/ RemountAgent

AgentQuiet ==
    /\ messages = <<>>
    /\ input = <<>>
    /\ isLoading = FALSE
    /\ pending = 0
    /\ accepted = 0 /\ answered = 0

----------------------------------------------------------------------------
(* Claims                                                                  *)

Rendered == rpc \in {"rendered", "rerendered"}

\* what each branch of the classification has to yield once sanitized
SanitizedBranch(c) ==
    IF isLikelyHtml(c) THEN sanitizeHtml(c)
    ELSE IF looksLikeMarkdown(c) THEN sanitizeHtml(simpleMarkdownToHtml(c))
    ELSE sanitizeHtml(toHtmlFromPlainText(c))

\* C1: for every non-empty input, whichever branch the classification selects,
\* renderForPreview returns the sanitized conversion; input that is already HTML
\* is sanitized too.
C1_AlwaysSanitized ==
    (Rendered /\ rIn # <<>>) => rOut = SanitizedBranch(rIn)

\* an HTML input that sanitization changed has been rendered
C1_Witness ==
    /\ Rendered /\ isLikelyHtml(rIn)
    /\ rOut # rIn
    /\ rOut # <<>>

\* the string was produced by sanitize from the content or from its conversion
PassedSanitize(d) ==
    \/ d.markup = sanitizeHtml(d.raw)
    \/ d.markup = sanitizeHtml(toHtmlFromContent(d.raw))

\* C2: on every surface, a content-derived string assigned to the document as
\* markup has first passed through sanitize.
C2_EveryMarkupSanitized ==
    doc.surface # "none" => PassedSanitize(doc)

\* the tags of a string, as the browser will read them
TagsOf(h) == {TagToken(h, i) : i \in {j \in 1..Len(h) : TagStartsAt(h, j)}}

IsHandler(attr) == Len(attr.name) >= 2 /\ attr.name[1] = "o" /\ attr.name[2] = "n"

AttrsOf(tk) == {AttrWords(tk.attrs)[k] : k \in 1..Len(AttrWords(tk.attrs))}

\* no script element, no event-handler attribute, no tag outside the allow-list
SafeMarkup(h) ==
    \A tk \in TagsOf(h) :
        /\ tk.name # ScriptName
        /\ tk.name \in AllowedTags
        /\ \A a \in AttrsOf(tk) : ~IsHandler(a)

Contains(h, p) == \E i \in 1..Len(h) : At(h, i, p)

\* C3: the output of renderForPreview holds no script element, no inline event
\* handler and no tag outside the allow-list; for "<script>alert(1)</script>Hello"
\* it holds Hello and no script tag.
C3_OutputSafe ==
    Rendered =>
        /\ SafeMarkup(rOut)
        /\ (rIn = ScriptExample => Contains(rOut, <<"H", "e", "l", "l", "o">>))

\* an input with a script element or a handler has been rendered to something
C3_Witness ==
    /\ Rendered
    /\ ~SafeMarkup(rIn)
    /\ \E tk \in TagsOf(rIn) : \E a \in AttrsOf(tk) : IsHandler(a)
    /\ rOut # <<>>

\* C4: rendering is idempotent: renderForPreview(renderForPreview(s)) =
\* renderForPreview(s).
C4_RenderIdempotent ==
    rpc = "rerendered" => rOut2 = rOut

\* C5: once a user has saved content A through the Create tab, a later Create
\* submission by that user of content that differs from A only in letter case and
\* whitespace-run length inserts no new row.
C5_NoRowForSimilarContent ==
    \A s \in Sessions : sess[s].last = "saved" => ~sess[s].dupAtStart

\* C6: inputs that differ only in whitespace runs (line endings included) and
\* letter case have the same hash of their normalized text.
C6_SameHash ==
    hpc = "hashed" => hd1 = hd2

\* two inputs that differ in case and in the length of a whitespace run were hashed
C6_Witness ==
    /\ hpc = "hashed"
    /\ Len(hs2) > Len(hs1)
    /\ \E i \in 1..Len(hs1) : IsAlpha(hs1[i]) /\ hs1[i] \notin {hs2[j] : j \in 1..Len(hs2)}
    /\ hd1 = hd2

\* C7: after any interleaving of Create submissions, the store holds at most one
\* row per (user, content hash).
C7_OneRowPerUserHash ==
    \A i, j \in 1..Len(content) :
        (content[i].user_id = content[j].user_id
            /\ content[i].content_hash = content[j].content_hash) => i = j

\* C8: classification takes exactly one branch with precedence HTML, then
\* Markdown, then plain text: HTML input is returned unchanged whatever
\* Markdown-looking text it holds, otherwise Markdown-looking input goes through
\* the Markdown converter, otherwise the plain-text converter runs.
C8_ClassificationPrecedence ==
    rpc # "new" =>
        /\ isLikelyHtml(rIn) => rHtml = rIn
        /\ (~isLikelyHtml(rIn) /\ looksLikeMarkdown(rIn)) => rHtml = simpleMarkdownToHtml(rIn)
        /\ (~isLikelyHtml(rIn) /\ ~looksLikeMarkdown(rIn)) => rHtml = toHtmlFromPlainText(rIn)

\* an input that is HTML and also looks like Markdown has been passed through
C8_Witness ==
    /\ rpc # "new"
    /\ isLikelyHtml(rIn) /\ looksLikeMarkdown(rIn)
    /\ rHtml = rIn
    /\ simpleMarkdownToHtml(rIn) # rIn

ConverterTags ==
    { <<"<", "p", ">">>, <<"<", "/", "p", ">">>, <<"<", "b", "r", ">">> }

\* every "<" of h opens one of the converter's tags and every ">" closes one
OnlyConverterTags(h) ==
    /\ \A i \in 1..Len(h) : h[i] = "<" => \E tg \in ConverterTags : At(h, i, tg)
    /\ \A i \in 1..Len(h) : h[i] = ">" => \E tg \in ConverterTags : At(h, i - Len(tg) + 1, tg)

\* C9: the only tags in the output of toHtmlFromPlainText are the <p>, </p> and
\* <br> the converter inserts; text of the user introduces none.
C9_NoUserMarkup ==
    ppc = "done" => OnlyConverterTags(pOut)

\* a text with angle brackets has been converted into a paragraph
C9_Witness ==
    /\ ppc = "done"
    /\ Count(pIn, "<") > 0 /\ Count(pIn, ">") > 0
    /\ Contains(pOut, <<"<", "p", ">">>)

Entities ==
    { <<"&", "a", "m", "p", ";">>, <<"&", "l", "t", ";">>, <<"&", "g", "t", ";">> }

\* every "&" of h opens an entity
OnlyEntityAmps(h) == \A i \in 1..Len(h) : h[i] = "&" => \E e \in Entities : At(h, i, e)

\* C10 as stated: every '&', '<', '>' and every quote character, double and
\* single, of the input appears in the output only as its entity.
C10_AllFiveEscaped ==
    ppc = "done" =>
        /\ OnlyConverterTags(pOut)
        /\ OnlyEntityAmps(pOut)
        /\ Count(pOut, "\"") = 0
        /\ Count(pOut, "'") = 0

\* C10 as amended: every '&', '<' and '>' of the input appears in the output only
\* as its entity, one entity per occurrence; the quote characters are copied as
\* they are.
C10_MarkupCharsEscaped ==
    ppc = "done" =>
        /\ OnlyConverterTags(pOut)
        /\ OnlyEntityAmps(pOut)
        /\ CountAt(pOut, <<"&", "a", "m", "p", ";">>) = Count(pIn, "&")
        /\ CountAt(pOut, <<"&", "l", "t", ";">>) = Count(pIn, "<")
        /\ CountAt(pOut, <<"&", "g", "t", ";">>) = Count(pIn, ">")
        /\ Count(pOut, "\"") = Count(pIn, "\"")
        /\ Count(pOut, "'") = Count(pIn, "'")

\* a text with an ampersand, an angle bracket and both quotes has been converted
C10_Witness ==
    /\ ppc = "done"
    /\ Count(pIn, "&") > 0 /\ Count(pIn, "<") > 0
    /\ Count(pIn, "\"") > 0 /\ Count(pIn, "'") > 0
    /\ Contains(pOut, <<"&", "l", "t", ";">>)

\* the text of s as the converter reads it: line endings normalised, trimmed
PlainText(s) == Trim(NormalizeLineEndings(s))

\* s holds a blank line: a line break, whitespace only, a line break
HasBlankLine(s) ==
    \E i, j \in 1..Len(s) :
        /\ i < j /\ s[i] = "\n" /\ s[j] = "\n"
        /\ \A k \in (i + 1)..(j - 1) : IsWs(s[k])

\* one paragraph wrapper around s, escaped, with its line breaks as <br>
OneParagraph(s) ==
    <<"<", "p", ">">> \o BreakLines(escapeHtml(s)) \o <<"<", "/", "p", ">">>

Reserved(s) == SelectSeq(s, LAMBDA c : c \in {"<", ">", "&"})

\* C12: for every plain text with a <, > or &, toHtmlFromPlainText followed by
\* stripHtml gives back the reserved characters of the text, each once and in
\* their order.
C12_RoundTripReserved ==
    (ppc = "stripped" /\ Reserved(pIn) # <<>>) => Reserved(pBack) = Reserved(pIn)

\* a text with all three reserved characters went through the round trip
C12_Witness ==
    /\ ppc = "stripped"
    /\ Count(pIn, "<") > 0 /\ Count(pIn, ">") > 0 /\ Count(pIn, "&") > 0
    /\ Contains(pOut, <<"&", "a", "m", "p", ";">>)
    /\ Reserved(pBack) = Reserved(pIn)

\* the lines of s on "\n"
RECURSIVE SplitLines(_)
SplitLines(s) ==
    LET k == FirstIn(s, 1, {"\n"})
    IN  IF k > Len(s) THEN <<s>>
        ELSE <<Sub(s, 1, k - 1)>> \o SplitLines(Sub(s, k + 1, Len(s)))

\* the text, word separation and line structure of a plain text: its lines that
\* are not blank, each trimmed and with its whitespace runs collapsed
LinesOf(s) ==
    LET ls == SplitLines(NormalizeLineEndings(s))
    IN  SelectSeq([i \in 1..Len(ls) |-> CollapseWs(Trim(ls[i]))], LAMBDA l : l # <<>>)

\* C13: after any sequence of switches between the plain and the rich editor
\* with no typing in between, the content carries the same text, word separation
\* and paragraph and line structure as before the first switch (stated for
\* content typed as text, without tags, and read whenever the plain editor shows
\* it again).
C13_SwitchKeepsContent ==
    (editorMode = "plain" /\ ~isLikelyHtml(typed)) => LinesOf(shown) = LinesOf(typed)

\* a heading line of level n starts at position i of s: n marks at the start of
\* a line, then a space
HeadingLineAt(s, i, n) ==
    /\ LineStart(s, i)
    /\ \A k \in 0..(n - 1) : i + k <= Len(s) /\ s[i + k] = "#"
    /\ i + n <= Len(s) /\ s[i + n] = " "

\* the text of that heading line, up to the end of the line
HeadingText(s, i, n) == Sub(s, i + n + 1, FirstIn(s, i + n + 1, LineEnds) - 1)

LevelDigit == <<"1", "2", "3", "4", "5", "6">>

\* C14: every heading line of level 1 to 6 becomes the heading element of its
\* level (stated for heading lines with a text free of emphasis marks).
C14_HeadingsOneToSix ==
    mpc # "new" =>
        \A i \in 1..Len(mIn) : \A n \in 1..6 :
            (/\ HeadingLineAt(mIn, i, n)
             /\ Trim(HeadingText(mIn, i, n)) # <<>>
             /\ Count(HeadingText(mIn, i, n), "*") = 0)
            => Contains(mHtml, Tag(<<"h", LevelDigit[n]>>) \o HeadingText(mIn, i, n)
                                   \o EndTag(<<"h", LevelDigit[n]>>))

\* position of the first bold span of s, or 0
FirstBold(s) ==
    LET ps == {i \in 1..Len(s) : SpanAt(s, i, <<"*", "*">>) > 0}
    IN  IF ps = {} THEN 0 ELSE CHOOSE i \in ps : \A j \in ps : i <= j

\* the text between the marks of the bold span at position i
BoldText(s, i) == Sub(s, i + 2, SpanAt(s, i, <<"*", "*">>) - 1)

\* s holds no line ending
OneLine(s) == \A k \in 1..Len(s) : s[k] \notin LineEnds

H1 == <<"h", "1">>
Strong == <<"s", "t", "r", "o", "n", "g">>

\* C15: for Markdown-like input that is no HTML, renderForPreview returns a
\* heading element around the text of each level-1 heading line and a strong
\* element around the text of the first bold span (texts within one line, the
\* heading text free of emphasis marks); for "# Title\n\nSome **bold** text"
\* these are <h1>Title</h1> and <strong>bold</strong>.
C15_HeadingAndBold ==
    mpc = "rendered" =>
        /\ \A i \in 1..Len(mIn) :
               (HeadingLineAt(mIn, i, 1) /\ Count(HeadingText(mIn, i, 1), "*") = 0)
               => Contains(mOut, Tag(H1) \o HeadingText(mIn, i, 1) \o EndTag(H1))
        /\ (FirstBold(mIn) > 0 /\ OneLine(BoldText(mIn, FirstBold(mIn))))
               => Contains(mOut, Tag(Strong) \o BoldText(mIn, FirstBold(mIn)) \o EndTag(Strong))
        /\ mIn = TitleExample =>
               /\ Contains(mOut, Tag(H1) \o <<"T", "i", "t", "l", "e">> \o EndTag(H1))
               /\ Contains(mOut, Tag(Strong) \o <<"b", "o", "l", "d">> \o EndTag(Strong))

\* a text with a level-1 heading line and a bold span has been rendered
C15_Witness ==
    /\ mpc = "rendered"
    /\ mIn # TitleExample
    /\ \E i \in 1..Len(mIn) :
           HeadingLineAt(mIn, i, 1) /\ Count(HeadingText(mIn, i, 1), "*") = 0
    /\ FirstBold(mIn) > 0 /\ OneLine(BoldText(mIn, FirstBold(mIn)))
    /\ Contains(mOut, Tag(H1)) /\ Contains(mOut, Tag(Strong))

\* s is trimmed, its only whitespace is single spaces, and it has no capital
NormalForm(s) ==
    /\ \A i \in 1..Len(s) : s[i] \notin Upper /\ (IsWs(s[i]) => s[i] = " ")
    /\ \A i \in 1..(Len(s) - 1) : ~(s[i] = " " /\ s[i + 1] = " ")
    /\ s # <<>> => (s[1] # " " /\ s[Len(s)] # " ")

\* the characters of s that are no whitespace, in order
Inked(s) == SelectSeq(s, LAMBDA c : ~IsWs(c))

\* C16: normalizeContent(normalizeContent(s)) = normalizeContent(s) for every s;
\* the result is trimmed, has every whitespace run as one space and no capital,
\* keeps the other characters of s, and is empty for the empty string.
C16_NormalizeIdempotent ==
    hpc = "renormalized" =>
        /\ hnn = hn
        /\ NormalForm(hn)
        /\ Inked(hn) = [i \in 1..Len(Inked(hs2)) |-> LowerOf(Inked(hs2)[i])]
        /\ hs2 = <<>> => hn = <<>>

\* a text with a capital and a whitespace run of two or more was normalised twice
C16_Witness ==
    /\ hpc = "renormalized"
    /\ \E i \in 1..Len(hs2) : hs2[i] \in Upper
    /\ \E i \in 1..(Len(hs2) - 2) : ~IsWs(hs2[i]) /\ IsWs(hs2[i + 1]) /\ IsWs(hs2[i + 2])
    /\ Inked(hs2) # <<>> /\ ~IsWs(hs2[Len(hs2)])
    /\ hnn = hn /\ hn # hs2

C18_NoFalsePositive ==
    (rpc # "new" /\ rIn \in ProseInputs) =>
        /\ ~isLikelyHtml(rIn)
        /\ rHtml = toHtmlFromPlainText(rIn)

\* C19: there is one prefix length n such that every content_hash a save path
\* stores, and every hash a save path queries with, is the first n digits of
\* sha256Hex(normalizeContent(content)) of the content it belongs to.
C19_OnePrefixLength ==
    \E n \in 1..HexDigestLen :
        /\ \A i \in 1..Len(content) :
               content[i].content_hash =
                   Sub(sha256Hex(normalizeContent(content[i].content)), 1, n)
        /\ \A s \in Sessions :
               sess[s].pc \in {"check", "insert"} =>
                   sess[s].hash = Sub(sha256Hex(normalizeContent(sess[s].form)), 1, n)

\* C20: for the empty input renderForPreview, toHtmlFromContent and
\* toHtmlFromPlainText all return the empty string, with no paragraph wrapper.
C20_EmptyIsEmpty ==
    (Rendered /\ rIn = <<>>) => (rHtml = <<>> /\ rPlain = <<>> /\ rOut = <<>>)

\* the empty input went through the converters and renderForPreview
C20_Witness ==
    /\ rpc = "rendered"
    /\ rIn = <<>>
    /\ rHtml = <<>> /\ rPlain = <<>> /\ rOut = <<>>

\* C24: two inputs that differ only in the style of their line endings (LF,
\* CRLF or CR) are converted by toHtmlFromPlainText to the same output.
C24_LineEndingStyleIgnored ==
    ppc = "restyled" => pAltOut = pOut

\* a text with a line break, written once with LF and once with a lone CR, was
\* converted both ways
C24_Witness ==
    /\ ppc = "restyled"
    /\ pAlt # pIn
    /\ \E i \in 1..Len(pAlt) : pAlt[i] = "\r" /\ (i = Len(pAlt) \/ pAlt[i + 1] # "\n")
    /\ Count(pIn, "\r") = 0
    /\ CountAt(pOut, <<"<", "b", "r", ">">>) >= 1
    /\ pAltOut = pOut

\* the bodies of the elements <name>...</name> of h: from each opening tag to
\* the next closing tag of that name
ElementBodies(h, name) ==
    {Sub(h, i + Len(Tag(name)),
         (CHOOSE j \in i..Len(h) :
              /\ At(h, j, EndTag(name))
              /\ \A k \in i..(j - 1) : ~At(h, k, EndTag(name))) - 1) :
        i \in {x \in 1..Len(h) : At(h, x, Tag(name))
                                    /\ \E j \in x..Len(h) : At(h, j, EndTag(name))}}

\* the tags the converter writes for headings, and those of the inline passes
\* in their order
HeadingNames == { <<"h", "1">>, <<"h", "2">>, <<"h", "3">> }
Em == <<"e", "m">>
Code == <<"c", "o", "d", "e">>

HasTagOf(body, names) ==
    \E n \in names : CountAt(body, Tag(n)) + CountAt(body, EndTag(n)) > 0

\* C21: every stored content row carries the hash of the normalized content it
\* holds (the 32-digit prefix of the Create tab or the full digest).
C21_HashOfCurrentContent ==
    \A i \in ContentIds :
        contentTable[i].present =>
            contentTable[i].content_hash \in
                {contentHash_handleSubmit(contentTable[i].content),
                 contentHash_onSubmit(contentTable[i].content)}

\* C26: from the successful end of handleSave until the user next edits the
\* title or the content, hasUnsavedChanges is false.
C26_NoUnsavedChangesAfterSave ==
    cleanSinceSave => ~hasUnsavedChanges

\* C27: when handleSave has reported an error, the content row is what it was
\* when the save began and no version row has been added since.
C27_SaveAllOrNothing ==
    (saveResult = "error" /\ ~saving.active /\ saving.id # 0) =>
        /\ contentTable[saving.id] = saving.rowBefore
        /\ Len(contentVersions) = saving.versionsBefore

\* C22: in the output for an input without angle brackets, no element written by
\* an inline pass holds a tag written by an earlier pass: no heading tag inside
\* strong, no heading or strong tag inside em, none of these inside code.
C22_NoRematchAcrossOutput ==
    (mpc # "new" /\ Count(mIn, "<") = 0) =>
        /\ \A b \in ElementBodies(mHtml, Strong) : ~HasTagOf(b, HeadingNames)
        /\ \A b \in ElementBodies(mHtml, Em) : ~HasTagOf(b, HeadingNames \cup {Strong})
        /\ \A b \in ElementBodies(mHtml, Code) :
               ~HasTagOf(b, HeadingNames \cup {Strong, Em})

\* the tags <p> and <br> of h in their order: the paragraphs, their boundaries
\* and the line breaks inside them
RECURSIVE Layout(_, _)
Layout(h, i) ==
    IF i > Len(h) THEN <<>>
    ELSE IF At(h, i, Tag(<<"p">>)) THEN <<"p">> \o Layout(h, i + 3)
    ELSE IF At(h, i, Tag(<<"b", "r">>)) THEN <<"br">> \o Layout(h, i + 4)
    ELSE Layout(h, i + 1)

\* C23: simpleMarkdownToHtml lays its input out in the same paragraphs and line
\* breaks as toHtmlFromPlainText lays out the same text, whatever the style of
\* its line endings.
C23_SameParagraphsAsPlainText ==
    (mpc # "new" /\ Count(mIn, "<") = 0) =>
        Layout(mHtml, 1) = Layout(toHtmlFromPlainText(mIn), 1)

\* C25: from a successful Create submission until the user next edits the form,
\* the content field is empty: no draft is restored into it.
C25_FormStaysEmpty ==
    sinceSubmit => form.content = ""

\* C28: selectedItems holds only ids of items of the loaded content list.
C28_SelectionWithinList ==
    selectedItems \subseteq contentList

\* number of messages of a role in the transcript
RoleCount(role) == Cardinality({i \in 1..Len(messages) : messages[i].role = role})

\* C29: at most one request is in flight, and it is in flight exactly while
\* isLoading; every accepted submission has put one user message into the
\* transcript and every finished one an assistant message after it, so that
\* the transcript alternates between the two roles.
C29_OneReplyPerSubmission ==
    /\ pending \in {0, 1}
    /\ isLoading <=> pending = 1
    /\ RoleCount("user") = accepted
    /\ RoleCount("assistant") = 1 + answered
    /\ answered = accepted - pending
    /\ \A i \in 1..(Len(messages) - 1) : messages[i].role # messages[i + 1].role
    /\ messages[Len(messages)].role = (IF isLoading THEN "user" ELSE "assistant")

\* three submissions were answered, one of them by the error text of the catch
\* block and one by a reply
C29_Witness ==
    /\ accepted = 3 /\ answered = 3
    /\ ~isLoading
    /\ \E i \in 1..Len(messages) : messages[i].kind = "thrown"
    /\ \E i \in 1..Len(messages) : messages[i].kind = "response"

\* C30: what loadDraft returned was saved by saveDraft under the same user id and
\* content type less than seven days before the call, and an item that was
\* seven days old or older was not returned and is gone from storage after the
\* call.
C30_OnlyOwnRecentDraft ==
    loaded.called =>
        /\ loaded.result.present =>
               /\ loaded.result.savedBy = loaded.user
               /\ loaded.result.savedAs = loaded.contentType
               /\ loaded.at - loaded.result.timestamp < SevenDays
               /\ loaded.at - loaded.result.timestamp >= 0
        /\ loaded.age >= SevenDays =>
               /\ ~loaded.result.present
               /\ loaded.removed

\* loadDraft met a draft that was exactly seven days old, and some other user's
\* draft is in storage
C30_Witness ==
    /\ loaded.called
    /\ loaded.age = SevenDays
    /\ ~loaded.result.present /\ loaded.removed
    /\ \E k \in DraftKeys :
           localStorage[k].present /\ localStorage[k].savedBy # loaded.user

----------------------------------------------------------------------------
(* Specifications                                                          *)

Init ==
    StoreInit /\ HashQuiet /\ RenderQuiet /\ PlainQuiet /\ SurfQuiet /\
    MarkQuiet /\ SanQuiet /\ DraftQuiet /\ EditQuiet /\ LibQuiet /\ AgentQuiet
Next == StoreNext
Spec == Init /\ [][Next]_vars

InitHash ==
    HashInit /\ StoreQuiet /\ RenderQuiet /\ PlainQuiet /\ SurfQuiet /\
    MarkQuiet /\ SanQuiet /\ DraftQuiet /\ EditQuiet /\ LibQuiet /\ AgentQuiet
SpecHash == InitHash /\ [][HashNext]_vars

InitRender ==
    RenderInit /\ StoreQuiet /\ HashQuiet /\ PlainQuiet /\ SurfQuiet /\
    MarkQuiet /\ SanQuiet /\ DraftQuiet /\ EditQuiet /\ LibQuiet /\ AgentQuiet
SpecRender == InitRender /\ [][RenderNext]_vars

InitPlain ==
    PlainInit /\ StoreQuiet /\ HashQuiet /\ RenderQuiet /\ SurfQuiet /\
    MarkQuiet /\ SanQuiet /\ DraftQuiet /\ EditQuiet /\ LibQuiet /\ AgentQuiet
SpecPlain == InitPlain /\ [][PlainNext]_vars

InitSurfaces ==
    SurfInit /\ StoreQuiet /\ HashQuiet /\ RenderQuiet /\ PlainQuiet /\
    MarkQuiet /\ SanQuiet /\ DraftQuiet /\ EditQuiet /\ LibQuiet /\ AgentQuiet
SpecSurfaces == InitSurfaces /\ [][SurfNext]_vars

InitMarkdown ==
    MarkInit /\ StoreQuiet /\ HashQuiet /\ RenderQuiet /\ PlainQuiet /\
    SurfQuiet /\ SanQuiet /\ DraftQuiet /\ EditQuiet /\ LibQuiet /\ AgentQuiet
SpecMarkdown == InitMarkdown /\ [][MarkNext]_vars

InitSanitize ==
    SanInit /\ StoreQuiet /\ HashQuiet /\ RenderQuiet /\ PlainQuiet /\ SurfQuiet /\
    MarkQuiet /\ DraftQuiet /\ EditQuiet /\ LibQuiet /\ AgentQuiet
SpecSanitize == InitSanitize /\ [][SanNext]_vars

InitDrafts ==
    DraftInit /\ StoreQuiet /\ HashQuiet /\ RenderQuiet /\ PlainQuiet /\
    SurfQuiet /\ MarkQuiet /\ SanQuiet /\ EditQuiet /\ LibQuiet /\ AgentQuiet
SpecDrafts == InitDrafts /\ [][DraftNext]_vars

InitEdit ==
    EditInit /\ StoreQuiet /\ HashQuiet /\ RenderQuiet /\ PlainQuiet /\
    SurfQuiet /\ MarkQuiet /\ SanQuiet /\ DraftQuiet /\ LibQuiet /\ AgentQuiet
SpecEdit == InitEdit /\ [][EditNext]_vars

InitLibrary ==
    LibInit /\ StoreQuiet /\ HashQuiet /\ RenderQuiet /\ PlainQuiet /\ SurfQuiet /\
    MarkQuiet /\ SanQuiet /\ DraftQuiet /\ EditQuiet /\ AgentQuiet
SpecLibrary == InitLibrary /\ [][LibNext]_vars

InitAgent ==
    AgentInit /\ StoreQuiet /\ HashQuiet /\ RenderQuiet /\ PlainQuiet /\
    SurfQuiet /\ MarkQuiet /\ SanQuiet /\ DraftQuiet /\ EditQuiet /\ LibQuiet
SpecAgent == InitAgent /\ [][AgentNext]_vars

====
